---- MODULE Spec2Model ----
(***************************************************************************)
(* remap-css (src/index.js): declaration normalisation, mapping            *)
(* compilation, colour substitution, selector rewriting and tree cleanup.  *)
(*                                                                         *)
(* Text is modelled structurally.  A value is a sequence of nodes, as      *)
(* postcss-value-parser yields them (spaces between nodes are implied).    *)
(* A node is a record                                                      *)
(*    type  "word" | "function"                                            *)
(*    s     the word's text, "#" for a hex colour, or the function's name  *)
(*    a     the hex digits after '#' (0..15, and 16..21 for 'A'..'F'), or   *)
(*          the numeric arguments of a colour function (alpha, the 4th, in  *)
(*          hundredths)                                                     *)
(*    kids  the argument nodes of any other function                       *)
(* opts.stylistic and the uso-var placeholders are left at their defaults   *)
(* (no stylistic rewriting, no placeholder in any value).                  *)
(***************************************************************************)
EXTENDS Integers, Sequences, FiniteSets, TLC

VARIABLES normst, conc, codec, selst, pc, mappings, tables, opts, src, root, cur, matchedDeclStrings, hist

vars == <<normst, conc, codec, selst, pc, mappings, tables, opts, src, root, cur, matchedDeclStrings, hist>>

(***************************************************************************)
(* Nodes                                                                   *)
(***************************************************************************)
W(s) == [type |-> "word", s |-> s, a |-> <<>>, kids |-> <<>>]

Hex(d) == [type |-> "word", s |-> "#", a |-> d, kids |-> <<>>]

Fn(name, args) == [type |-> "function", s |-> name, a |-> args, kids |-> <<>>]

FnK(name, kids) == [type |-> "function", s |-> name, a |-> <<>>, kids |-> kids]

\* JavaScript null / undefined as the result of a lookup or a parse
NULL == [type |-> "null", s |-> "", a |-> <<>>, kids |-> <<>>]

\* a TypeError raised while a value is computed
THROWN == [type |-> "throw", s |-> "", a |-> <<>>, kids |-> <<>>]

IsHexWord(n) == n.type = "word" /\ n.s = "#"

\* String.prototype.toLowerCase on the words of the vocabulary
LowerWord(s) ==
  CASE s = "RED" -> "red"
    [] s = "Red" -> "red"
    [] s = "WHITE" -> "white"
    [] s = "currentColor" -> "currentcolor"
    [] s = "Transparent" -> "transparent"
    [] s = "SOLID" -> "solid"
    [] s = "Hello" -> "hello"
    [] s = "A.png" -> "a.png"
    [] s = "RGB" -> "rgb"
    [] OTHER -> s

LowerDigit(d) == IF d > 15 THEN d - 6 ELSE d

RECURSIVE toLowerCase(_)
toLowerCase(n) ==
  [type |-> n.type,
   s |-> LowerWord(n.s),
   a |-> IF n.s = "#" THEN [i \in DOMAIN n.a |-> LowerDigit(n.a[i])] ELSE n.a,
   kids |-> [i \in DOMAIN n.kids |-> toLowerCase(n.kids[i])]]

(***************************************************************************)
(* Color codec                                                             *)
(***************************************************************************)
\* src/index.js:21-170, the names the model's vocabulary uses
cssColorNames ==
  [n \in {"red", "blue", "green", "yellow", "white", "black", "gray", "silver"} |->
     CASE n = "red" -> <<15, 15, 0, 0, 0, 0>>
       [] n = "blue" -> <<0, 0, 0, 0, 15, 15>>
       [] n = "green" -> <<0, 0, 8, 0, 0, 0>>
       [] n = "yellow" -> <<15, 15, 15, 15, 0, 0>>
       [] n = "white" -> <<15, 15, 15, 15, 15, 15>>
       [] n = "black" -> <<0, 0, 0, 0, 0, 0>>
       [] n = "gray" -> <<8, 0, 8, 0, 8, 0>>
       [] n = "silver" -> <<12, 0, 12, 0, 12, 0>>]

cssValueKeywords ==
  {"currentcolor", "inherit", "initial", "none", "revert", "transparent", "unset"}

rgbFunctions == {"rgb", "rgba"}

hslFunctions == {"hsl", "hsla"}

\* Number.prototype.toString(16).padStart(2, "0") of a byte
Byte2Hex(n) == <<n \div 16, n % 16>>

\* parseInt(xx, 16) of two hex digits
Hex2Byte(d, i) == 16 * d[i] + d[i + 1]

\* d: the digits after '#'; value.length is Len(d) + 1
normalizeHexColor(d) ==
  IF Len(d) \in {3, 4}
    THEN LET al == IF Len(d) = 4 THEN d[4] ELSE 15
         IN <<d[1], d[1], d[2], d[2], d[3], d[3], al, al>>
    ELSE IF Len(d) = 6 THEN d \o <<15, 15>> ELSE d

\* args: the numeric words of the function; alpha is args[4] when present
alphaToHex(args) ==
  IF Len(args) < 4 THEN <<>>
  ELSE LET al == IF args[4] > 100 THEN 100 ELSE IF args[4] < 0 THEN 0 ELSE args[4]
       IN Byte2Hex((al * 255) \div 100)

\* color-convert rgb.hex: ((Math.round(c) & 0xFF) per channel, six digits
RgbHex(r, g, b) == Byte2Hex(r % 256) \o Byte2Hex(g % 256) \o Byte2Hex(b % 256)

\* color-convert hsl.rgb, one channel (i = 0, 1, 2), exact over the rationals:
\* l, s in percent, h in degrees; the result is Math.round(val * 255)
HslChannel(h, s, l, i) ==
  LET t2 == IF l < 50 THEN l * (100 + s) ELSE 100 * l + 100 * s - l * s
      t1 == 200 * l - t2
      t3 == (h + 120 * (1 - i) + 360) % 360
      num == IF t3 < 60 THEN t1 * 60 + (t2 - t1) * t3
             ELSE IF t3 < 180 THEN t2 * 60
             ELSE IF t3 < 240 THEN t1 * 60 + (t2 - t1) * (240 - t3)
             ELSE t1 * 60
  IN (num * 255 * 2 + 600000) \div 1200000

HslHex(h, s, l) ==
  IF s = 0
    THEN LET v == (l * 255 * 2 + 100) \div 200 IN RgbHex(v, v, v)
    ELSE RgbHex(HslChannel(h, s, l, 0), HslChannel(h, s, l, 1), HslChannel(h, s, l, 2))

hexFromColorFunction(node) ==
  IF node.s \in rgbFunctions
    THEN IF Len(node.a) < 3 \/ node.a[1] = 0 \/ node.a[2] = 0 \/ node.a[3] = 0
           THEN NULL
           ELSE Hex(normalizeHexColor(RgbHex(node.a[1], node.a[2], node.a[3]) \o alphaToHex(node.a)))
  ELSE IF node.s \in hslFunctions
    THEN IF Len(node.a) < 3
           THEN NULL
           ELSE Hex(normalizeHexColor(HslHex(node.a[1], node.a[2], node.a[3]) \o alphaToHex(node.a)))
  ELSE NULL

ZeroColor == Hex(<<0, 0, 0, 0, 0, 0, 0, 0>>)

normalizeColor(value) ==
  LET Named(v) == IF v.type = "word" /\ v.s \in DOMAIN cssColorNames
                    THEN Hex(cssColorNames[v.s]) ELSE v
      Transparent(v) == IF v = W("transparent") THEN ZeroColor ELSE v
      Collapsed(d) == IF Len(d) = 8 /\ d[7] = 0 /\ d[8] = 0 THEN ZeroColor ELSE Hex(d)
      OrSelf(newValue, v) == IF newValue # NULL THEN newValue ELSE v
      Normalized(v) ==
        IF IsHexWord(v) /\ Len(v.a) \in 3..8 THEN Collapsed(normalizeHexColor(v.a))
        ELSE IF v.type = "function" THEN OrSelf(hexFromColorFunction(v), v)
        ELSE v
  IN Normalized(Transparent(Named(toLowerCase(value))))

\* the regular expressions of isColor, on a node's text
isColor(value) ==
  LET v == toLowerCase(value)
  IN \/ v.type = "word" /\ v.s \in DOMAIN cssColorNames
     \/ v.type = "word" /\ v.s \in cssValueKeywords
     \/ IsHexWord(v) /\ Len(v.a) \in {3, 4, 6, 8}
     \/ v.type = "function" /\ v.s = "rgb" /\ Len(v.a) = 3 /\ v.a[3] \in 0..9
     \/ v.type = "function" /\ v.s = "rgba" /\ Len(v.a) = 4 /\ v.a[3] \in 0..9
     \/ v.type = "function" /\ v.s = "hsl" /\ Len(v.a) = 3
          /\ v.a[2] \in 0..9 /\ v.a[3] \in 0..9
     \/ v.type = "function" /\ v.s = "hsla" /\ Len(v.a) = 4
          /\ v.a[2] \in 0..9 /\ v.a[3] \in 0..9

(***************************************************************************)
(* Color resolution against one table                                      *)
(* A table is a function from lower-cased keys (nodes) to replacement      *)
(* nodes, as the plain objects of prepareMappings.                         *)
(***************************************************************************)
MONOCHROME == W("$monochrome")

INVERT == W("$invert")

EMPTY == W("")

\* JavaScript truthiness of a stored replacement string
Truthy(v) == v # NULL /\ v # EMPTY

Lookup(m, k) == IF k \in DOMAIN m THEN m[k] ELSE NULL

\* the decimal digits of an argument of three digits, as hex digits
Digits3(n) == <<n \div 100, (n \div 10) % 10, n % 10>>

\* color-convert hex.rgb: the first run of six, else three, hex characters
\* anywhere in the text; <<>> when the text has none
RECURSIVE HexRun(_)
HexRun(n) ==
  IF IsHexWord(n)
    THEN IF Len(n.a) >= 6 THEN SubSeq(n.a, 1, 6)
         ELSE IF Len(n.a) >= 3 THEN SubSeq(n.a, 1, 3) ELSE <<>>
  ELSE IF n.type = "function"
    THEN LET big == {i \in DOMAIN n.a : n.a[i] >= 100 /\ n.a[i] <= 999}
             kid == {i \in DOMAIN n.kids : HexRun(n.kids[i]) # <<>>}
         IN IF big # {} THEN Digits3(n.a[CHOOSE i \in big : \A j \in big : i <= j])
            ELSE IF kid # {} THEN HexRun(n.kids[CHOOSE i \in kid : \A j \in kid : i <= j])
            ELSE <<>>
  ELSE IF n.s = "facade" THEN <<15, 10, 12, 10, 13, 14>>
  ELSE <<>>

HexRgb(n) ==
  LET Bytes(d) == <<Hex2Byte(d, 1), Hex2Byte(d, 3), Hex2Byte(d, 5)>>
      Rgb(run) ==
        IF run = <<>> THEN <<0, 0, 0>>
        ELSE IF Len(run) = 3 THEN Bytes(<<run[1], run[1], run[2], run[2], run[3], run[3]>>)
        ELSE Bytes(run)
  IN Rgb(HexRun(n))

assignNewColorAlphaToo(normalizedColor, newValue) ==
  IF newValue = INVERT
    THEN IF IsHexWord(normalizedColor) /\ Len(normalizedColor.a) = 8
           THEN LET d == normalizedColor.a
                IN Hex(Byte2Hex(255 - Hex2Byte(d, 1)) \o Byte2Hex(255 - Hex2Byte(d, 3))
                       \o Byte2Hex(255 - Hex2Byte(d, 5)) \o Byte2Hex(255 - Hex2Byte(d, 7)))
           ELSE THROWN
    ELSE newValue

\* /^#(..)(..)(..)(..)$/.exec(normalizedColor) is null, and its destructuring
\* throws, unless the text is '#' and eight characters
assignNewColor(normalizedColor, newValue) ==
  IF newValue = INVERT
    THEN IF IsHexWord(normalizedColor) /\ Len(normalizedColor.a) = 8
           THEN LET d == normalizedColor.a
                IN Hex(Byte2Hex(255 - Hex2Byte(d, 1)) \o Byte2Hex(255 - Hex2Byte(d, 3))
                       \o Byte2Hex(255 - Hex2Byte(d, 5)) \o <<d[7], d[8]>>)
           ELSE THROWN
    ELSE newValue

getNewColorValue(normalizedValue, colorMappings) ==
  LET Monochrome(rgb) ==
        IF rgb[1] = rgb[2] /\ rgb[2] = rgb[3]
          THEN assignNewColor(normalizedValue, colorMappings[MONOCHROME])
          ELSE NULL
  IN IF Truthy(Lookup(colorMappings, normalizedValue))
       THEN colorMappings[normalizedValue]
     ELSE IF Truthy(Lookup(colorMappings, MONOCHROME))
       THEN Monochrome(HexRgb(normalizedValue))
     ELSE NULL

(***************************************************************************)
(* Specification SpecCodec: normalizeColor and getNewColorValue applied to *)
(* one colour text and one table drawn from bounded sets                   *)
(***************************************************************************)
Channels == {0, 40, 128, 255}

Alphas == {0, 50, 100}

Doubled(c) == c \div 16 = c % 16

Hex6Of(r, g, b) == Byte2Hex(r) \o Byte2Hex(g) \o Byte2Hex(b)

\* upper-case spelling of the hex letters
UpperDigits(d) == [i \in DOMAIN d |-> IF d[i] > 9 THEN d[i] + 6 ELSE d[i]]

\* CSS: the alpha byte of an alpha given in hundredths, rounded to nearest
CssAlphaByte(al) == (al * 255 * 2 + 100) \div 200

OpaqueForms ==
  UNION {
    {Hex(Hex6Of(r, g, b)), Hex(UpperDigits(Hex6Of(r, g, b))), Fn("rgb", <<r, g, b>>)}
      \cup (IF Doubled(r) /\ Doubled(g) /\ Doubled(b)
              THEN {Hex(<<r % 16, g % 16, b % 16>>)} ELSE {})
    : r \in Channels, g \in Channels, b \in Channels}

AlphaForms ==
  UNION {
    {Hex(Hex6Of(r, r, b) \o Byte2Hex(CssAlphaByte(al))), Fn("rgba", <<r, r, b, al>>)}
      \cup (IF Doubled(r) /\ Doubled(b) /\ Doubled(CssAlphaByte(al))
              THEN {Hex(<<r % 16, r % 16, b % 16, CssAlphaByte(al) % 16>>)} ELSE {})
    : r \in Channels, b \in Channels, al \in Alphas}

NameForms == {W(n) : n \in DOMAIN cssColorNames} \cup {W("RED"), W("Red"), W("WHITE")}

HslForms ==
  {Fn("hsl", <<0, 100, 50>>), Fn("hsl", <<240, 100, 50>>), Fn("hsl", <<0, 0, 100>>),
   Fn("hsl", <<0, 0, 0>>), Fn("hsl", <<120, 100, 25>>), Fn("hsla", <<0, 100, 50, 100>>),
   Fn("hsla", <<0, 0, 100, 50>>), Fn("hsla", <<0, 100, 50, 0>>)}

OtherForms ==
  {W(k) : k \in cssValueKeywords} \cup
  {W("currentColor"), W("1px"), W("solid"), Fn("rgb", <<255, 0>>),
   FnK("calc", <<W("1px")>>), FnK("var", <<W("--x")>>),
   FnK("linear-gradient", <<W("red"), Hex(<<15, 15, 15>>)>>)}

CodecInputs == OpaqueForms \cup AlphaForms \cup NameForms \cup HslForms \cup OtherForms

Gray40 == Hex(<<2, 8, 2, 8, 2, 8, 15, 15>>)

CodecTables ==
  {<<>>,
   MONOCHROME :> INVERT,
   (MONOCHROME :> INVERT) @@ (Gray40 :> W("red")),
   (MONOCHROME :> INVERT) @@ (Gray40 :> EMPTY),
   MONOCHROME :> Hex(<<1, 2, 3>>),
   Hex(<<15, 15, 0, 0, 0, 0, 15, 15>>) :> W("blue")}

CodecIdle == [step |-> "idle"]

CodecInit ==
  \E i \in CodecInputs, t \in CodecTables :
    codec = [step |-> "in", in |-> i, table |-> t, norm |-> NULL, new |-> NULL]

(***************************************************************************)
(* Declaration normalizer                                                  *)
(* A declaration is [prop, value, important, before]: before is            *)
(* raws.before trimmed ("", "*" or "_").  Function texts hold no space, so  *)
(* split(" ") cuts between nodes; the one text with a ':' is the word      *)
(* 'http://a.png'.                                                         *)
(***************************************************************************)
\* the vocabulary in the order of JavaScript's default sort (UTF-16 code units);
\* "#" stands for every hex colour word
SortedWords ==
  <<"!important", "#", "$invert", "$monochrome", "--x", ".5", "0.5", "1.5px", "10.5px",
    "100.5px", "12px", "1px", "Hello", "RED", "RGB", "Red", "SOLID", "Transparent", "WHITE",
    "a.png", "black", "blue", "calc", "currentColor", "currentcolor", "facade", "gray",
    "green", "hello", "hsl", "hsla", "http,//a.png", "http://a.png", "inherit", "initial",
    "linear-gradient", "none", "red", "revert", "rgb", "rgba", "silver", "solid",
    "transparent", "unset", "url", "var", "white", "yellow">>

WordRank(s) ==
  IF \E i \in DOMAIN SortedWords : SortedWords[i] = s
    THEN CHOOSE i \in DOMAIN SortedWords : SortedWords[i] = s
    ELSE Len(SortedWords) + 1

\* code-unit order of a hex digit: '0'..'9' < 'A'..'F' < 'a'..'f'
DigitRank(d) == IF d > 15 THEN d - 6 ELSE IF d > 9 THEN d + 6 ELSE d

TextKey(n) ==
  <<WordRank(n.s)>> \o
  (IF n.s = "#" THEN [i \in DOMAIN n.a |-> DigitRank(n.a[i])]
   ELSE IF n.type = "function" THEN <<0>> \o n.a ELSE <<>>)

RECURSIVE LexLess(_, _)
LexLess(x, y) ==
  IF y = <<>> THEN FALSE
  ELSE IF x = <<>> THEN TRUE
  ELSE IF Head(x) # Head(y) THEN Head(x) < Head(y)
  ELSE LexLess(Tail(x), Tail(y))

RECURSIVE InsertSorted(_, _)
InsertSorted(sorted, n) ==
  IF sorted = <<>> THEN <<n>>
  ELSE IF LexLess(TextKey(n), TextKey(Head(sorted))) THEN <<n>> \o sorted
  ELSE <<Head(sorted)>> \o InsertSorted(Tail(sorted), n)

\* value.split(" ").sort().join(" ")
RECURSIVE SortValue(_)
SortValue(value) ==
  IF value = <<>> THEN <<>>
  ELSE InsertSorted(SortValue(SubSeq(value, 1, Len(value) - 1)), value[Len(value)])

\* css-shorthand-properties, the properties of the vocabulary
isShorthand(prop) ==
  prop \in {"background", "border", "border-top", "border-color", "border-image"}

\* .replace(/0(\.[0-9])/g, ...) on the words of the vocabulary
StripZeroWord(s) ==
  CASE s = "0.5" -> ".5"
    [] s = "10.5px" -> "1.5px"
    [] s = "100.5px" -> "10.5px"
    [] OTHER -> s

StripZero(value) == [i \in DOMAIN value |-> [value[i] EXCEPT !.s = StripZeroWord(@)]]

getProperty(decl) ==
  IF decl.before = "*" \/ decl.before = "_" THEN decl.before \o decl.prop ELSE decl.prop

LowerProp(p) ==
  CASE p = "COLOR" -> "color"
    [] p = "Color" -> "color"
    [] p = "*COLOR" -> "*color"
    [] OTHER -> p

StartsWithUrl(value) == value # <<>> /\ value[1].type = "function" /\ value[1].s = "url"

\* normalizeColor applied to a whole value text
normalizeColorValue(value) ==
  LET OrLow(newValue, low) == IF newValue # NULL THEN <<newValue>> ELSE low
      Lowered(low) ==
        IF low # <<>> /\ low[1].type = "function"
          THEN OrLow(hexFromColorFunction(low[1]), low) ELSE low
  IN IF Len(value) = 1 THEN <<normalizeColor(value[1])>>
     ELSE Lowered([i \in DOMAIN value |-> toLowerCase(value[i])])

normalizeDecl(decl) ==
  LET Sorted(prop, v) == IF isShorthand(prop) THEN SortValue(v) ELSE v
      Lowered(prop, v) ==
        IF prop # "content" /\ ~StartsWithUrl(v)
          THEN [i \in DOMAIN v |-> toLowerCase(v[i])] ELSE v
      Normalized(prop, v) ==
        [prop |-> prop, value |-> Sorted(prop, Lowered(prop, v)),
         important |-> decl.important, origValue |-> decl.value]
  IN Normalized(LowerProp(getProperty(decl)), normalizeColorValue(StripZero(decl.value)))

\* `${prop}: ${value}${important ? " !important" : ""}`, as the sequence of
\* its space-separated words
KeyString(prop, value, important) ==
  <<W(prop)>> \o value \o (IF important THEN <<W("!important")>> ELSE <<>>)

stringifyDecl(decl) ==
  LET Text(n) == KeyString(n.prop, n.value, n.important)
  IN Text(normalizeDecl(decl))

\* str.split(":") and, for the value, parts.join(","): every ':' of the value
\* text becomes ','
RECURSIVE JoinParts(_)
JoinParts(value) ==
  [i \in DOMAIN value |->
     [value[i] EXCEPT !.s = IF @ = "http://a.png" THEN "http,//a.png" ELSE @,
                      !.kids = JoinParts(@)]]

\* a declaration written in a mapping: [prop, value, imp], imp = "none", or
\* "word" (the text ends ' !important') or "part" (it ends ':!important')
parseDeclOne(raw) ==
  normalizeDecl([prop |-> raw.prop,
                 value |-> JoinParts(raw.value)
                           \o (IF raw.imp = "word" THEN <<W("!important")>> ELSE <<>>),
                 important |-> raw.imp = "part",
                 before |-> ""])

\* declString: the sequence of the texts between ';'
parseDecl(declString) == [i \in DOMAIN declString |-> parseDeclOne(declString[i])]

(***************************************************************************)
(* Mapping compiler                                                        *)
(* A raw entry is [kind, from, color, to]: kind "exact" (from: the written *)
(* declaration, to: the replacement declarations) or one of the category   *)
(* prefixes (color: the text after the prefix, to: <<replacement>>).       *)
(***************************************************************************)
EmptyTables ==
  [decl |-> <<>>, names |-> <<>>, color |-> <<>>, border |-> <<>>,
   boxShadow |-> <<>>, background |-> <<>>]

\* obj[key] = value on a plain object
Put(obj, key, value) == (key :> value) @@ obj

addMapping(t, fromStringDecl, toStringDecl) ==
  LET Twin(t1, fromDecl, toDecl, newNameImportant) ==
        IF ~fromDecl.important
          THEN [t1 EXCEPT !.names = Put(@, newNameImportant,
                                        [from |-> fromStringDecl, twin |-> TRUE]),
                          !.decl = Put(@, newNameImportant, toDecl)]
          ELSE t1
      Add(fromDecl, toDecl, newName) ==
        Twin([t EXCEPT !.names = Put(@, newName, [from |-> fromStringDecl, twin |-> FALSE]),
                       !.decl = Put(@, newName, toDecl)],
             fromDecl, toDecl,
             stringifyDecl([prop |-> fromDecl.prop, value |-> fromDecl.value,
                            important |-> TRUE, before |-> ""]))
      Parsed(fromDecl, toDecl) ==
        Add(fromDecl, toDecl,
            stringifyDecl([prop |-> fromDecl.prop, value |-> fromDecl.value,
                           important |-> fromDecl.important, before |-> ""]))
  IN IF toStringDecl = <<>> THEN t
     ELSE Parsed(parseDeclOne(fromStringDecl), parseDecl(toStringDecl))

\* newName of addMapping for an exact entry e, and newNameImportant when
\* important is TRUE
EntryKey(e, important) ==
  LET Key(fromDecl) ==
        stringifyDecl([prop |-> fromDecl.prop, value |-> fromDecl.value,
                       important |-> important \/ fromDecl.important, before |-> ""])
  IN Key(parseDeclOne(e.from))

\* the key of a category entry
CategoryKey(value) ==
  toLowerCase(IF value.type = "word" /\ value.s \in {"$monochrome", "$invert"}
                THEN value ELSE normalizeColor(value))

RECURSIVE prepareMappingsFrom(_, _)
prepareMappingsFrom(entries, t) ==
  LET Entry(e) ==
        CASE e.kind = "$border" ->
               [t EXCEPT !.border = Put(@, CategoryKey(e.color), e.to[1])]
          [] e.kind = "$background" ->
               [t EXCEPT !.background = Put(@, CategoryKey(e.color), e.to[1])]
          [] e.kind = "$box-shadow" ->
               [t EXCEPT !.boxShadow = Put(@, CategoryKey(e.color), e.to[1])]
          [] e.kind = "$value" ->
               [t EXCEPT !.color = Put(@, CategoryKey(e.color), e.to[1])]
          [] OTHER -> addMapping(t, e.from, e.to)
  IN IF entries = <<>> THEN t
     ELSE prepareMappingsFrom(Tail(entries), Entry(Head(entries)))

prepareMappings(entries) == prepareMappingsFrom(entries, EmptyTables)

(***************************************************************************)
(* Selector rewriter                                                       *)
(* A selector is the sequence of its whitespace-separated parts; a rule's  *)
(* selector text is the sequence of its comma-separated selectors.         *)
(***************************************************************************)
SN(type, name) == [type |-> type, name |-> name]

\* css-selector-tokenizer: the simple selectors of the first selector of a
\* text; <<>> where parse() throws or yields nothing
Tokenize(text) ==
  CASE text = "a" -> <<SN("element", "a")>>
    [] text = "b" -> <<SN("element", "b")>>
    [] text = "body" -> <<SN("element", "body")>>
    [] text = "html" -> <<SN("element", "html")>>
    [] text = ":root" -> <<SN("pseudo-class", "root")>>
    [] text = ".m" -> <<SN("class", "m")>>
    [] text = "a.m" -> <<SN("element", "a"), SN("class", "m")>>
    [] text = "*.m" -> <<SN("universal", ""), SN("class", "m")>>
    [] text = ".x" -> <<SN("class", "x")>>
    [] text = "html.x" -> <<SN("element", "html"), SN("class", "x")>>
    [] OTHER -> <<>>

\* the first pair, a outer and b inner, that decides
selectorsIntersect(a, b) ==
  LET nodesA == Tokenize(a)
      nodesB == Tokenize(b)
      Pairs == {<<i, j>> : i \in DOMAIN nodesA, j \in DOMAIN nodesB}
      Before(p, q) == p[1] < q[1] \/ (p[1] = q[1] /\ p[2] < q[2])
      Bad(p) == nodesA[p[1]].name = "" \/ nodesB[p[2]].name = ""
      Same(p) == nodesA[p[1]] = nodesB[p[2]]
      Deciding == {p \in Pairs : Bad(p) \/ Same(p)}
  IN IF Deciding = {} THEN FALSE
     ELSE LET p == CHOOSE q \in Deciding : \A r \in Deciding : q = r \/ Before(q, r)
          IN ~Bad(p)

isRootSelector(selector) == selector \in {"html", ":root", "html.x"}

\* /^[0-9]+%$/
IsKeyframeStep(selector) == selector \in {<<"0%">>, <<"50%">>, <<"100%">>}

Intersects(first, s) == \E i \in DOMAIN s.match : selectorsIntersect(first, s.match[i])

\* the body of the loop of rewriteSelectors, for one selector (stylistic off)
rewriteSelector(selector, s) ==
  IF s.prefix = "" THEN selector
  ELSE LET first == selector[1]
       IN IF IsKeyframeStep(selector) THEN selector
          ELSE IF isRootSelector(first) /\ isRootSelector(s.prefix)
            THEN <<s.prefix>> \o (IF Len(selector) > 1 THEN Tail(selector) ELSE <<"">>)
          ELSE IF Intersects(first, s) THEN <<first \o first>> \o Tail(selector)
          ELSE <<s.prefix>> \o selector

rewriteSelectors(selectors, s) == [i \in DOMAIN selectors |-> rewriteSelector(selectors[i], s)]

(***************************************************************************)
(* Colour substitution in a value                                          *)
(***************************************************************************)
borderColorShorthands ==
  {"border", "border-top", "border-left", "border-right", "border-bottom", "border-color"}

borderColorLonghands ==
  {"border-top-color", "border-left-color", "border-right-color", "border-bottom-color"}

backgroundColorShorthands == {"background"}

backgroundColorLonghands == {"background-color"}

borderColorVars == borderColorShorthands \cup borderColorLonghands

backgroundColorVars == backgroundColorShorthands \cup backgroundColorLonghands

\* the tables checkNode consults for a property, in its order
TablesGenericFirst(prop, t) ==
  <<t.color>>
  \o (IF prop \in borderColorVars \/ prop = "border-image" THEN <<t.border>> ELSE <<>>)
  \o (IF prop \in backgroundColorVars \/ prop = "background-image"
        THEN <<t.background>> ELSE <<>>)
  \o (IF prop = "box-shadow" THEN <<t.boxShadow>> ELSE <<>>)

TablesFor(prop, t) ==
  (IF prop \in borderColorVars \/ prop = "border-image" THEN <<t.border>> ELSE <<>>)
  \o (IF prop \in backgroundColorVars \/ prop = "background-image"
        THEN <<t.background>> ELSE <<>>)
  \o (IF prop = "box-shadow" THEN <<t.boxShadow>> ELSE <<>>)
  \o <<t.color>>

\* the new value checkNode hands to doReplace: the first table's result that is
\* truthy; NULL when none is; THROWN when a lookup throws before any hit
RECURSIVE FirstHit(_, _)
FirstHit(normalizedValue, ts) ==
  LET Decide(newValue) ==
        IF newValue = THROWN THEN THROWN
        ELSE IF Truthy(newValue) THEN newValue
        ELSE FirstHit(normalizedValue, Tail(ts))
  IN IF ts = <<>> THEN NULL ELSE Decide(getNewColorValue(normalizedValue, Head(ts)))

checkNode(prop, normalizedValue, t) == FirstHit(normalizedValue, TablesFor(prop, t))

\* the walk callback's normalizedValue; NULL when the node is skipped
WalkNormalized(node) ==
  IF node.type = "word" /\ isColor(node) THEN normalizeColor(node)
  ELSE IF node.type = "function" THEN normalizeColor(node)
  ELSE NULL

\* oldColors.add(text)
AddOnce(set, x) == IF \E i \in DOMAIN set : set[i] = x THEN set ELSE Append(set, x)

NoWalk == [nodes |-> <<>>, oldColors |-> <<>>, replaced |-> FALSE, threw |-> FALSE, log |-> <<>>]

\* postcssValueParser.walk over nodes, acc the result so far: each node first,
\* then the arguments of a function that was not replaced
RECURSIVE WalkNodes(_, _, _, _)
WalkNodes(nodes, prop, t, acc) ==
  LET Inside(node, sub) ==
        WalkNodes(Tail(nodes), prop, t,
          [sub EXCEPT !.nodes = Append(acc.nodes, [node EXCEPT !.kids = sub.nodes])])
      Visit(node, nv, newValue) ==
        IF newValue = THROWN THEN [acc EXCEPT !.threw = TRUE]
        ELSE IF newValue # NULL
          THEN WalkNodes(Tail(nodes), prop, t,
                 [acc EXCEPT !.nodes = Append(@, newValue),
                             !.oldColors = AddOnce(@, node),
                             !.replaced = TRUE,
                             !.log = Append(@, [old |-> node, norm |-> nv, new |-> newValue])])
        ELSE IF node.type = "function" /\ node.kids # <<>>
          THEN Inside(node, WalkNodes(node.kids, prop, t, [acc EXCEPT !.nodes = <<>>]))
        ELSE WalkNodes(Tail(nodes), prop, t, [acc EXCEPT !.nodes = Append(@, node)])
      Check(node, nv) == Visit(node, nv, IF nv = NULL THEN NULL ELSE checkNode(prop, nv, t))
  IN IF nodes = <<>> \/ acc.threw THEN acc
     ELSE Check(Head(nodes), WalkNormalized(Head(nodes)))

\* newValue: the rewritten value, or <<NULL>> when nothing was replaced
replaceColorsInValue(prop, value, t) ==
  LET Result(w) == [newValue |-> IF w.replaced THEN w.nodes ELSE <<NULL>>,
                    oldColors |-> w.oldColors, threw |-> w.threw, log |-> w.log]
  IN Result(WalkNodes(value, prop, t, NoWalk))

(***************************************************************************)
(* Collaborators of the resolution engine: the grammar validator           *)
(* (csstree-validator, known-css-properties) and the shorthand expander    *)
(* (css-property-parser), on the vocabulary of the model                   *)
(***************************************************************************)
knownProperties ==
  {"color", "border", "border-top", "border-color", "border-top-color", "background",
   "background-color", "background-image", "box-shadow", "font-size", "content"}

TokenClass(n) ==
  LET v == toLowerCase(n)
  IN IF v.type = "word"
       THEN CASE v.s \in DOMAIN cssColorNames \/ v.s \in {"currentcolor", "transparent"} -> "color"
              [] v.s = "#" /\ Len(v.a) \in {3, 4, 6, 8} -> "color"
              [] v.s \in {"inherit", "initial", "unset", "revert"} -> "wide"
              [] v.s = "none" -> "none"
              [] v.s \in {"1px", "12px", ".5", "0.5", "1.5px", "10.5px", "100.5px"} -> "length"
              [] v.s = "solid" -> "style"
              [] OTHER -> "other"
       ELSE CASE v.s \in rgbFunctions \cup hslFunctions /\ Len(v.a) >= 3 -> "color"
              [] v.s = "url" -> "image"
              [] v.s = "linear-gradient" -> "gradient"
              [] v.s = "var" -> "var"
              [] v.s = "calc" -> "length"
              [] OTHER -> "other"

Classes(value) == {TokenClass(value[i]) : i \in DOMAIN value}

CountClass(value, c) == Cardinality({i \in DOMAIN value : TokenClass(value[i]) = c})

\* csstree: does the value match the property's grammar
ValidValue(prop, value) ==
  IF value = <<>> THEN FALSE
  ELSE IF "var" \in Classes(value) THEN TRUE
  ELSE IF Len(value) = 1 /\ TokenClass(value[1]) = "wide" THEN TRUE
  ELSE CASE prop \in {"color", "border-top-color", "background-color"} ->
              Len(value) = 1 /\ TokenClass(value[1]) = "color"
         [] prop = "border-color" -> Classes(value) = {"color"} /\ Len(value) <= 4
         [] prop \in {"border", "border-top"} ->
              /\ Classes(value) \subseteq {"length", "style", "color", "none"}
              /\ \A c \in Classes(value) : CountClass(value, c) = 1
              /\ ~({"style", "none"} \subseteq Classes(value))
         [] prop = "background" ->
              /\ Classes(value) \subseteq {"color", "image", "gradient", "none"}
              /\ CountClass(value, "color") <= 1
         [] prop = "background-image" ->
              Len(value) = 1 /\ TokenClass(value[1]) \in {"image", "gradient", "none"}
         [] prop = "box-shadow" ->
              \/ Classes(value) = {"none"} /\ Len(value) = 1
              \/ /\ Classes(value) \subseteq {"length", "color"}
                 /\ "length" \in Classes(value)
                 /\ CountClass(value, "color") <= 1
         [] prop = "font-size" -> Len(value) = 1 /\ TokenClass(value[1]) = "length"
         [] OTHER -> TRUE

isValidDeclaration(prop, value) == prop \in knownProperties /\ ValidValue(prop, value)

\* the first node of a class, as a one-node value
Pick(value, cs) ==
  LET I == {i \in DOMAIN value : TokenClass(value[i]) \in cs}
  IN IF I = {} THEN <<>> ELSE <<value[CHOOSE i \in I : \A j \in I : i <= j]>>

LH(prop, value) == IF value = <<>> THEN <<>> ELSE <<[prop |-> prop, value |-> value]>>

ExpandThrows == [ok |-> FALSE, longhands |-> <<>>]

\* expandShorthandProperty(prop, value): the outcomes it can have, a throw or
\* the longhands in the order of the returned object.  Whether it parses a
\* gradient is not fixed by its interface: both outcomes are possible.
expandShorthandProperty(prop, value) ==
  IF prop = "background"
    THEN IF value # <<>> /\ Classes(value) \subseteq {"color", "image", "gradient", "none"}
              /\ CountClass(value, "color") <= 1
              /\ CountClass(value, "image") + CountClass(value, "gradient")
                   + CountClass(value, "none") <= 1
           THEN {[ok |-> TRUE,
                  longhands |-> LH("background-image", Pick(value, {"image", "gradient", "none"}))
                                \o LH("background-color", Pick(value, {"color"}))]}
                \cup (IF "gradient" \in Classes(value) THEN {ExpandThrows} ELSE {})
           ELSE {ExpandThrows}
    ELSE IF value # <<>> /\ Classes(value) \subseteq {"length", "style", "color", "none"}
              /\ (\A c \in Classes(value) : CountClass(value, c) = 1)
              /\ ~({"style", "none"} \subseteq Classes(value))
           THEN {[ok |-> TRUE,
                  longhands |-> LH(prop \o "-width", Pick(value, {"length"}))
                                \o LH(prop \o "-style", Pick(value, {"style", "none"}))
                                \o LH(prop \o "-color", Pick(value, {"color"}))]}
           ELSE {ExpandThrows}

\* prop.includes("color")
IncludesColor(prop) ==
  prop \in {"color", "border-color", "border-top-color", "border-left-color",
            "border-right-color", "border-bottom-color", "background-color"}

\* varRe.test(value): the first var(--...) node, <<>> when there is none
FirstVar(value) == Pick(value, {"var"})

\* value.replace(varRe, "rgba(255,0,255,0)")
ReplaceFirstVar(value) ==
  LET I == {i \in DOMAIN value : TokenClass(value[i]) = "var"}
      k == CHOOSE i \in I : \A j \in I : i <= j
  IN [i \in DOMAIN value |-> IF i = k THEN Fn("rgba", <<255, 0, 255, 0>>) ELSE value[i]]

(***************************************************************************)
(* The source tree                                                         *)
(*   decl    [type, id, prop, value, important, before, replaced]          *)
(*   rule    [type, id, parent, selector, nodes]   parent: the name of the *)
(*           at-rule holding the rule, "" at the root                      *)
(*   atrule  [type, id, name, nodes]                                       *)
(* id names the node of the parsed source; a clone carries the id of the   *)
(* declaration it is cloned from.  replaced is raws._replaced.             *)
(***************************************************************************)
NONODE == [type |-> "none", id |-> 0]

RECURSIVE FindNode(_, _)
FindNode(nodes, id) ==
  IF nodes = <<>> THEN NONODE
  ELSE LET h == Head(nodes)
           inside == IF h.type = "atrule" THEN FindNode(h.nodes, id) ELSE NONODE
       IN IF h.id = id THEN h
          ELSE IF inside # NONODE THEN inside
          ELSE FindNode(Tail(nodes), id)

\* the tree with the rule or at-rule id replaced by the nodes repl
RECURSIVE Splice(_, _, _)
Splice(nodes, id, repl) ==
  IF nodes = <<>> THEN <<>>
  ELSE LET h == Head(nodes)
       IN (IF h.type # "decl" /\ h.id = id THEN repl
           ELSE IF h.type = "atrule" THEN <<[h EXCEPT !.nodes = Splice(h.nodes, id, repl)]>>
           ELSE <<h>>)
          \o Splice(Tail(nodes), id, repl)

\* the rules in the order root.walkRules visits them
RECURSIVE RuleIds(_)
RuleIds(nodes) ==
  IF nodes = <<>> THEN <<>>
  ELSE LET h == Head(nodes)
       IN (IF h.type = "rule" THEN <<h.id>>
           ELSE IF h.type = "atrule" THEN RuleIds(h.nodes) ELSE <<>>)
          \o RuleIds(Tail(nodes))

hasDeclarationsAlways(node) == TRUE

\* the test on the node's own children only
hasDeclarationsChildren(node) ==
  node.type = "decl" \/ (node.type # "comment" /\ node.nodes # <<>>)

RECURSIVE hasDeclarations(_)
hasDeclarations(node) ==
  IF node.type = "decl" THEN TRUE
  ELSE IF node.type = "comment" THEN FALSE
  ELSE \E i \in DOMAIN node.nodes : hasDeclarations(node.nodes[i])

atRulesWithNoSelectors == {"keyframes"}

(***************************************************************************)
(* plugin: the per-declaration callback of node.walkDecls                  *)
(***************************************************************************)
CurRule == FindNode(root, Head(cur.todo))

CurDecl == CurRule.nodes[cur.di]

DeclString(decl) ==
  stringifyDecl([prop |-> decl.prop, value |-> decl.value,
                 important |-> decl.important, before |-> ""])

newImportantOfMapping(decl, newDecl) == newDecl.important

\* Boolean(decl.important || important)
newImportant(decl, newDecl) == decl.important \/ newDecl.important

\* the loop without the validation of line 617
RECURSIVE ExactLoopUnvalidated(_, _, _, _)
ExactLoopUnvalidated(decl, outs, name, acc) ==
  IF outs = <<>> THEN acc
  ELSE LET newDecl == Head(outs)
           newValue == IF newDecl.origValue # <<>> THEN newDecl.origValue ELSE newDecl.value
       IN ExactLoopUnvalidated(decl, Tail(outs), name,
            [acc EXCEPT !.newDecls = Append(@, [decl EXCEPT !.prop = newDecl.prop,
                                                           !.value = newValue,
                                                           !.important = newImportant(decl, newDecl),
                                                           !.before = "",
                                                           !.replaced = TRUE]),
                        !.labels = Append(@, [arr |-> FALSE, texts |-> <<name>>])])

\* the loop over declMappings[declString]: the clones made and the labels
\* pushed until an output fails validation (which removes the declaration)
RECURSIVE ExactLoop(_, _, _, _)
ExactLoop(decl, outs, name, acc) ==
  IF outs = <<>> THEN acc
  ELSE LET newDecl == Head(outs)
           newValue == IF newDecl.origValue # <<>> THEN newDecl.origValue ELSE newDecl.value
       IN IF opts.validate /\ ~isValidDeclaration(newDecl.prop, newValue)
            THEN [acc EXCEPT !.newDecls = <<>>, !.invalid = TRUE]
            ELSE ExactLoop(decl, Tail(outs), name,
                   [acc EXCEPT !.newDecls = Append(@, [decl EXCEPT !.prop = newDecl.prop,
                                                                  !.value = newValue,
                                                                  !.important = newImportant(decl, newDecl),
                                                                  !.before = "",
                                                                  !.replaced = TRUE]),
                               !.labels = Append(@, [arr |-> FALSE, texts |-> <<name>>])])

ExactResult(decl) ==
  LET Outputs(declString) ==
        ExactLoop(decl, tables.decl[declString], tables.names[declString],
                  [newDecls |-> <<>>, labels |-> <<>>, invalid |-> FALSE])
  IN Outputs(DeclString(decl))

\* the declarations that stand where decl stood after the expansion loop:
\* the first colour longhand is written to decl, each later one is cloned
\* before it (the clone is made before raws._replaced is set)
RECURSIVE ExpandLoop(_, _, _, _, _)
ExpandLoop(decl, longhands, varText, numReplaced, clones) ==
  IF longhands = <<>> THEN clones \o <<[decl EXCEPT !.replaced = TRUE]>>
  ELSE LET prop == Head(longhands).prop
           value == IF varText # <<>> THEN varText ELSE Head(longhands).value
       IN IF ~IncludesColor(prop)
            THEN ExpandLoop(decl, Tail(longhands), varText, numReplaced, clones)
          ELSE IF numReplaced = 0
            THEN ExpandLoop([decl EXCEPT !.prop = prop, !.value = value],
                            Tail(longhands), varText, 1, clones)
          ELSE ExpandLoop(decl, Tail(longhands), varText, numReplaced + 1,
                          Append(clones, [decl EXCEPT !.prop = prop, !.value = value]))

NeedsExpansion(decl) ==
  \/ decl.prop \in borderColorShorthands /\ decl.prop # "border-color"
  \/ decl.prop \in backgroundColorShorthands /\ decl.prop # "background-color"

\* the outcomes expandShorthandProperty can have on the new value
ExpansionsOf(decl, newValue) ==
  IF NeedsExpansion(decl)
    THEN expandShorthandProperty(decl.prop,
           IF FirstVar(newValue) # <<>> THEN ReplaceFirstVar(newValue) ELSE newValue)
    ELSE {ExpandThrows}

ColorRewrite(decl, newValue, expanded) ==
  IF NeedsExpansion(decl) /\ expanded.ok
    THEN ExpandLoop(decl, expanded.longhands, FirstVar(newValue), 0, <<>>)
    ELSE <<[decl EXCEPT !.value = newValue, !.replaced = TRUE]>>

(***************************************************************************)
(* plugin: the actions of one source's pass                                *)
(*   pc = "rules"  root.walkRules is under way: cur.todo are the rules     *)
(*                 still to visit, cur.di the declaration walkDecls is at  *)
(*   pc = "walk"   root.walkAtRules is done, root.walk is next             *)
(*   pc = "done"   the tree is the source's result                         *)
(*   pc = "thrown" an exception ended the pass: there is no result         *)
(* matchedDeclStrings holds, per push, [arr, texts]: arr tells an array    *)
(* was pushed (the colour path) rather than a string.                      *)
(* hist records, per resolved declaration, what the callback did.          *)
(***************************************************************************)
InWalkDecls == pc = "rules" /\ cur.todo # <<>> /\ cur.di <= Len(CurRule.nodes)

\* the walk moves past decl, which newDecls replace in the rule
Resolved(decl, newDecls, labels, kind, log) ==
  LET rule == CurRule
      nodes == SubSeq(rule.nodes, 1, cur.di - 1) \o newDecls
               \o SubSeq(rule.nodes, cur.di + 1, Len(rule.nodes))
  IN /\ root' = Splice(root, rule.id, <<[rule EXCEPT !.nodes = nodes]>>)
     /\ cur' = [cur EXCEPT !.di = cur.di + Len(newDecls)]
     /\ matchedDeclStrings' = matchedDeclStrings \o labels
     /\ hist' = Append(hist, [id |-> decl.id, rule |-> rule.id, sel |-> rule.selector,
                              decl |-> decl, kind |-> kind, emitted |-> newDecls,
                              labels |-> labels, log |-> log])
     /\ pc' = pc

ExactNever(decl) == FALSE

\* if (declMappings[declString])
ExactHit(decl) == DeclString(decl) \in DOMAIN tables.decl

ResolveExact ==
  /\ InWalkDecls
  /\ ExactHit(CurDecl)
  /\ \E r \in {ExactResult(CurDecl)} :
       Resolved(CurDecl, r.newDecls, r.labels,
                IF r.invalid THEN "exactInvalid" ELSE "exact", <<>>)
  /\ UNCHANGED <<normst, conc, codec, selst, mappings, tables, opts, src>>

ColorLabels(oldColors) == <<[arr |-> TRUE, texts |-> oldColors]>>

ResolveColor ==
  /\ InWalkDecls
  /\ ~ExactHit(CurDecl)
  /\ \E decl \in {CurDecl} :
       \E r \in {replaceColorsInValue(decl.prop, decl.value, tables)} :
         /\ ~r.threw
         /\ r.newValue # <<NULL>>
         /\ IF opts.validate /\ ~isValidDeclaration(getProperty(decl), r.newValue)
              THEN Resolved(decl, <<>>, <<>>, "colorInvalid", r.log)
              ELSE \E expanded \in ExpansionsOf(decl, r.newValue) :
                     Resolved(decl, ColorRewrite(decl, r.newValue, expanded),
                              ColorLabels(r.oldColors), "color", r.log)
  /\ UNCHANGED <<normst, conc, codec, selst, mappings, tables, opts, src>>

KeepUnmatchedNever(o) == FALSE

KeepUnmatched(o) == o.keep

ResolveUnmatched ==
  /\ InWalkDecls
  /\ ~ExactHit(CurDecl)
  /\ \E decl \in {CurDecl} :
       \E r \in {replaceColorsInValue(decl.prop, decl.value, tables)} :
         /\ ~r.threw
         /\ r.newValue = <<NULL>>
         /\ IF KeepUnmatched(opts)
              THEN Resolved(decl, <<decl>>, <<>>, "kept", <<>>)
              ELSE Resolved(decl, <<>>, <<>>, "dropped", <<>>)
  /\ UNCHANGED <<normst, conc, codec, selst, mappings, tables, opts, src>>

\* a TypeError out of assignNewColor ends the pass
ResolveThrows ==
  /\ InWalkDecls
  /\ ~ExactHit(CurDecl)
  /\ replaceColorsInValue(CurDecl.prop, CurDecl.value, tables).threw
  /\ pc' = "thrown"
  /\ hist' = Append(hist, [id |-> CurDecl.id, rule |-> CurRule.id, sel |-> CurRule.selector,
                           decl |-> CurDecl, kind |-> "threw", emitted |-> <<>>,
                           labels |-> <<>>, log |-> <<>>])
  /\ UNCHANGED <<normst, conc, codec, selst, mappings, tables, opts, src, root, cur, matchedDeclStrings>>

\* re.test(selector) for a pattern /(^| )p( |$)/: some part of the selector is p
Ignored(selector, ignoreSelectors) ==
  \E i \in DOMAIN ignoreSelectors : \E j \in DOMAIN selector : selector[j] = ignoreSelectors[i]

RECURSIVE FilterSelectors(_, _)
FilterSelectors(selectors, ignoreSelectors) ==
  IF selectors = <<>> THEN <<>>
  ELSE (IF Ignored(Head(selectors), ignoreSelectors) THEN <<>> ELSE <<Head(selectors)>>)
       \o FilterSelectors(Tail(selectors), ignoreSelectors)

\* uniq: a string pushed twice is kept once, pushed arrays are all distinct
RECURSIVE uniq(_)
uniq(labels) ==
  IF labels = <<>> THEN <<>>
  ELSE LET init == uniq(SubSeq(labels, 1, Len(labels) - 1))
           l == labels[Len(labels)]
       IN IF ~l.arr /\ \E i \in DOMAIN init : init[i] = l THEN init ELSE Append(init, l)

\* prevNode.text.match(/".+?"/g): every quoted text of a comment, as strings
RECURSIVE QuotedTexts(_)
QuotedTexts(labels) ==
  IF labels = <<>> THEN <<>>
  ELSE [i \in DOMAIN Head(labels).texts |-> [arr |-> FALSE, texts |-> <<Head(labels).texts[i]>>]]
       \o QuotedTexts(Tail(labels))

makeComment(labels) == [type |-> "comment", id |-> 0, provenance |-> TRUE, labels |-> labels]

\* the at-rule holding node id, NONODE when the node is a child of the root
RECURSIVE ParentOf(_, _)
ParentOf(nodes, id) ==
  IF nodes = <<>> THEN NONODE
  ELSE LET h == Head(nodes)
           inside == IF h.type # "atrule" THEN NONODE
                     ELSE IF \E i \in DOMAIN h.nodes : h.nodes[i].type # "decl" /\ h.nodes[i].id = id
                       THEN h
                     ELSE ParentOf(h.nodes, id)
       IN IF inside # NONODE THEN inside ELSE ParentOf(Tail(nodes), id)

IsNode(n, id) == n.type \in {"rule", "atrule"} /\ n.id = id

\* targetNode.prev() is a provenance comment, somewhere in the tree
RECURSIVE HasPrevComment(_, _)
HasPrevComment(nodes, id) ==
  \E i \in DOMAIN nodes :
    \/ /\ IsNode(nodes[i], id) /\ i > 1
       /\ nodes[i - 1].type = "comment" /\ nodes[i - 1].provenance
    \/ nodes[i].type = "atrule" /\ HasPrevComment(nodes[i].nodes, id)

\* prevNode.text = ...: the comment before the target takes the new labels too
RECURSIVE MergeIntoPrev(_, _, _)
MergeIntoPrev(nodes, id, labels) ==
  [i \in DOMAIN nodes |->
     IF i < Len(nodes) /\ IsNode(nodes[i + 1], id) /\ nodes[i].type = "comment"
       THEN [nodes[i] EXCEPT !.labels = uniq(QuotedTexts(@) \o labels)]
     ELSE IF nodes[i].type = "atrule"
       THEN [nodes[i] EXCEPT !.nodes = MergeIntoPrev(@, id, labels)]
     ELSE nodes[i]]

\* root.insertBefore(targetNode, comment): nodes.splice(root.index(targetNode), 0, comment),
\* where the index is -1 for a target that is no child of the root
insertBefore(nodes, id, comment) ==
  LET I == {i \in DOMAIN nodes : IsNode(nodes[i], id)}
      at == IF I # {} THEN CHOOSE i \in I : TRUE
            ELSE IF nodes = <<>> THEN 1 ELSE Len(nodes)
  IN SubSeq(nodes, 1, at - 1) \o <<comment>> \o SubSeq(nodes, at, Len(nodes))

\* if (opts.comments) ...
WithComment(nodes, rule) ==
  LET parent == ParentOf(nodes, rule.id)
      targetNode == IF parent # NONODE THEN parent ELSE rule
  IN IF ~opts.comments THEN nodes
     ELSE IF HasPrevComment(nodes, targetNode.id)
       THEN MergeIntoPrev(nodes, targetNode.id, matchedDeclStrings)
     ELSE insertBefore(nodes, targetNode.id, makeComment(uniq(matchedDeclStrings)))

\* the tree after the selector step of the walkRules callback
TreeAfterRule(rule) ==
  LET newSelectors == FilterSelectors(rewriteSelectors(rule.selector, src), opts.ignoreSelectors)
  IN IF matchedDeclStrings = <<>> THEN root
     ELSE IF newSelectors = <<>> THEN Splice(root, rule.id, <<>>)
     ELSE IF rule.parent \in atRulesWithNoSelectors THEN WithComment(root, rule)
     ELSE Splice(WithComment(root, rule), rule.id, <<[rule EXCEPT !.selector = newSelectors]>>)

\* the rest of the walkRules callback, once walkDecls has returned
RewriteRule ==
  /\ pc = "rules" /\ cur.todo # <<>> /\ cur.di > Len(CurRule.nodes)
  /\ root' = TreeAfterRule(CurRule)
  /\ cur' = [todo |-> Tail(cur.todo), di |-> 1]
  /\ matchedDeclStrings' = <<>>
  /\ UNCHANGED <<normst, conc, codec, selst, pc, mappings, tables, opts, src, hist>>

\* node.walkDecls of root.walkAtRules: every declaration below an at-rule
RECURSIVE DropUnreplaced(_, _)
DropUnreplaced(nodes, inAtRule) ==
  IF nodes = <<>> THEN <<>>
  ELSE LET h == Head(nodes)
       IN (IF h.type = "decl"
             THEN IF inAtRule /\ ~h.replaced /\ ~opts.keep THEN <<>> ELSE <<h>>
           ELSE IF h.type = "comment" THEN <<h>>
           ELSE <<[h EXCEPT !.nodes = DropUnreplaced(h.nodes, inAtRule \/ h.type = "atrule")]>>)
          \o DropUnreplaced(Tail(nodes), inAtRule)

WalkAtRules ==
  /\ pc = "rules" /\ cur.todo = <<>>
  /\ root' = DropUnreplaced(root, FALSE)
  /\ pc' = "walk"
  /\ UNCHANGED <<normst, conc, codec, selst, mappings, tables, opts, src, cur, matchedDeclStrings, hist>>

\* within a rule, of the unreplaced declarations of one property only the last stays
DedupeDecls(nodes) ==
  LET Dup(i) == /\ nodes[i].type = "decl" /\ ~nodes[i].replaced
                /\ \E j \in DOMAIN nodes : /\ j > i /\ nodes[j].type = "decl"
                                           /\ ~nodes[j].replaced
                                           /\ nodes[j].prop = nodes[i].prop
      RECURSIVE Keep(_)
      Keep(i) == IF i > Len(nodes) THEN <<>>
                 ELSE (IF Dup(i) THEN <<>> ELSE <<nodes[i]>>) \o Keep(i + 1)
  IN Keep(1)

\* root.walk: comments that are not provenance comments and nodes without a
\* declaration are removed, rules lose their duplicate declarations
RECURSIVE CleanupNodes(_)
CleanupNodes(nodes) ==
  IF nodes = <<>> THEN <<>>
  ELSE LET h == Head(nodes)
       IN (IF h.type = "decl" THEN <<h>>
           ELSE IF h.type = "comment" THEN (IF h.provenance THEN <<h>> ELSE <<>>)
           ELSE IF ~hasDeclarations(h) THEN <<>>
           ELSE IF h.type = "rule" THEN <<[h EXCEPT !.nodes = DedupeDecls(h.nodes)]>>
           ELSE <<[h EXCEPT !.nodes = CleanupNodes(h.nodes)]>>)
          \o CleanupNodes(Tail(nodes))

WalkCleanup ==
  /\ pc = "walk"
  /\ root' = CleanupNodes(root)
  /\ pc' = "done"
  /\ UNCHANGED <<normst, conc, codec, selst, mappings, tables, opts, src, cur, matchedDeclStrings, hist>>

(***************************************************************************)
(* remapCss for one source: the inputs                                     *)
(***************************************************************************)
MaxDecls == 2

Decl(id, d) ==
  [type |-> "decl", id |-> id, prop |-> d.prop, value |-> d.value,
   important |-> d.important, before |-> d.before, replaced |-> FALSE]

Rule(id, parent, selector, nodes) ==
  [type |-> "rule", id |-> id, parent |-> parent, selector |-> selector, nodes |-> nodes]

AtRule(id, name, nodes) == [type |-> "atrule", id |-> id, name |-> name, nodes |-> nodes]

SourceComment == [type |-> "comment", id |-> 0, provenance |-> FALSE, labels |-> <<>>]

D(prop, value, important) ==
  [prop |-> prop, value |-> value, important |-> important, before |-> ""]

\* a declaration written with a hack marker: the parser leaves the marker in
\* raws.before and the name without it in prop
HackDecl(before, prop, value, important) ==
  [prop |-> prop, value |-> value, important |-> important, before |-> before]

\* the declarations a rule of the source starts with
FirstDecls ==
  {D("color", <<W("red")>>, FALSE),
   D("color", <<W("RED")>>, TRUE),
   D("color", <<W("yellow")>>, FALSE),
   D("color", <<Hex(<<2, 8, 2, 8, 2, 8>>)>>, FALSE),
   D("color", <<W("inherit")>>, FALSE),
   D("border", <<W("1px"), W("solid"), W("red")>>, FALSE),
   D("background", <<W("solid"), W("red")>>, TRUE),
   D("background", <<W("red")>>, FALSE),
   D("background", <<FnK("linear-gradient", <<W("red"), W("blue")>>)>>, FALSE),
   D("box-shadow", <<W("1px"), W("red")>>, FALSE),
   D("font-size", <<W("12px")>>, FALSE)}

\* the declarations that may follow
NextDecls ==
  {D("color", <<W("green")>>, FALSE),
   D("color", <<W("red")>>, FALSE)}

RECURSIVE Bodies(_)
Bodies(n) ==
  IF n = 1 THEN {<<Decl(11, d)>> : d \in FirstDecls}
  ELSE Bodies(n - 1)
       \cup {Append(b, Decl(10 + n, d)) : b \in {x \in Bodies(n - 1) : Len(x) = n - 1},
                                          d \in NextDecls}

RedRule(id, parent, selector) ==
  Rule(id, parent, selector, <<Decl(10 * id + 1, D("color", <<W("red")>>, FALSE))>>)

Trees ==
  UNION {
    {<<Rule(1, "", <<<<"a">>, <<"b">>>>, b)>>,
     <<AtRule(3, "media", <<Rule(1, "media", <<<<"html">>, <<"body", "a">>>>, b)>>),
       RedRule(2, "", <<<<"a.m">>>>)>>,
     <<AtRule(3, "keyframes", <<Rule(1, "keyframes", <<<<"0%">>, <<"50%">>>>, b),
                                RedRule(2, "keyframes", <<<<"100%">>>>)>>)>>,
     <<Rule(1, "", <<<<"b">>>>, b), SourceComment,
       Rule(2, "", <<<<"a">>>>, <<Decl(21, D("font-size", <<W("12px")>>, FALSE))>>)>>,
     <<AtRule(3, "font-face", b), RedRule(2, "", <<<<"a">>>>)>>}
    : b \in Bodies(MaxDecls)}
  \cup {<<AtRule(3, "-webkit-keyframes",
                 <<RedRule(1, "-webkit-keyframes", <<<<"12.5%">>, <<"from">>>>)>>)>>}
  \cup {<<AtRule(4, "supports",
                 <<AtRule(3, "media", <<RedRule(1, "media", <<<<"a">>>>)>>)>>),
          RedRule(2, "", <<<<"a">>>>)>>}
  \cup {<<Rule(1, "", <<<<"a">>>>, <<Decl(11, HackDecl(before, "color", <<W("red")>>, FALSE)),
                                     Decl(12, D("color", <<W("red")>>, FALSE))>>)>>
        : before \in {"*", "_"}}

R(prop, value, imp) == [prop |-> prop, value |-> value, imp |-> imp]

Exact(from, to) == [kind |-> "exact", from |-> from, color |-> NULL, to |-> to]

Category(kind, color, to) == [kind |-> kind, from |-> NULL, color |-> color, to |-> <<to>>]

\* the mappings objects, each as the sequence of its entries
MappingsPool ==
  {<<>>,
   <<Exact(R("color", <<W("red")>>, "none"), <<R("color", <<W("blue")>>, "none")>>),
     Exact(R("color", <<W("blue")>>, "none"), <<R("color", <<W("green")>>, "none")>>),
     Exact(R("*color", <<W("red")>>, "none"), <<R("color", <<W("yellow")>>, "none")>>),
     Category("$value", W("red"), W("green"))>>,
   <<Category("$value", W("red"), W("yellow")),
     Category("$border", W("red"), W("green")),
     Category("$background", W("Red"), W("green")),
     Category("$box-shadow", Hex(<<15, 0, 0>>), W("blue"))>>,
   <<Category("$border", W("red"), W("yellow")),
     Category("$background", W("red"), FnK("url", <<W("a.png")>>))>>,
   <<Category("$value", MONOCHROME, INVERT)>>,
   <<Exact(R("background", <<W("red")>>, "none"),
           <<R("background-color", <<W("blue")>>, "none"), R("color", <<W("hello")>>, "none")>>),
     Exact(R("color", <<W("red")>>, "none"), <<R("color", <<W("blue")>>, "part")>>),
     Exact(R("font-size", <<W("12px")>>, "none"),
           <<R("background", <<FnK("url", <<W("http://a.png")>>)>>, "none")>>)>>,
   <<Exact(R("border", <<W("solid"), W("1px"), W("red")>>, "none"),
           <<R("border-color", <<W("yellow")>>, "none")>>),
     Exact(R("color", <<W("red")>>, "word"), <<R("color", <<W("silver")>>, "none")>>),
     Category("$border", W("red"), W("blue")),
     Category("$value", W("green"), Fn("var", <<>>))>>,
   <<Exact(R("font-size", <<W("12px")>>, "word"), <<R("font-size", <<W("1px")>>, "none")>>),
     Exact(R("font-size", <<W("12px")>>, "none"), <<R("font-size", <<W("1.5px")>>, "none")>>)>>,
   <<Exact(R("font-size", <<W("12px")>>, "none"), <<R("font-size", <<W("1.5px")>>, "none")>>),
     Exact(R("font-size", <<W("12px")>>, "word"), <<R("font-size", <<W("1px")>>, "none")>>)>>,
   <<Category("$value", W("red"), W("green")),
     Category("$value", Hex(<<15, 0, 0>>), EMPTY),
     Exact(R("color", <<W("yellow")>>, "none"), <<>>)>>}

\* strict validation is explored with the other options at their defaults
OptsPool ==
  {o \in [keep : BOOLEAN, validate : BOOLEAN, comments : BOOLEAN,
          ignoreSelectors : {<<>>, <<"b", "50%">>}] :
     o.validate => ~o.comments /\ o.ignoreSelectors = <<>>}

SrcPool == {[prefix |-> "", match |-> <<>>], [prefix |-> ".x", match |-> <<"body", ".m">>]}

SelIdle == [step |-> "idle"]

ConcIdle == [step |-> "idle"]

NormIdle == [step |-> "idle"]

Init ==
  /\ normst = NormIdle
  /\ conc = ConcIdle
  /\ codec = CodecIdle
  /\ selst = SelIdle
  /\ pc = "start"
  /\ mappings \in MappingsPool
  /\ tables = EmptyTables
  /\ opts \in OptsPool
  /\ src \in SrcPool
  /\ root \in Trees
  /\ cur = [todo |-> <<>>, di |-> 1]
  /\ matchedDeclStrings = <<>>
  /\ hist = <<>>

\* remapCss up to the first callback of the plugin
PrepareMappings ==
  /\ pc = "start"
  /\ tables' = prepareMappings(mappings)
  /\ cur' = [todo |-> RuleIds(root), di |-> 1]
  /\ pc' = "rules"
  /\ UNCHANGED <<normst, conc, codec, selst, mappings, opts, src, root, matchedDeclStrings, hist>>

Next ==
  \/ PrepareMappings
  \/ ResolveExact
  \/ ResolveColor
  \/ ResolveUnmatched
  \/ ResolveThrows
  \/ RewriteRule
  \/ WalkAtRules
  \/ WalkCleanup

Spec == Init /\ [][Next]_vars

(***************************************************************************)
(* Specification SpecCodec                                                 *)
(***************************************************************************)
PipelineIdle ==
  /\ pc = "idle"
  /\ mappings = <<>>
  /\ tables = EmptyTables
  /\ opts = [keep |-> FALSE, validate |-> FALSE, comments |-> FALSE, ignoreSelectors |-> <<>>]
  /\ src = [prefix |-> "", match |-> <<>>]
  /\ root = <<>>
  /\ cur = [todo |-> <<>>, di |-> 1]
  /\ matchedDeclStrings = <<>>
  /\ hist = <<>>

pipeline == <<pc, mappings, tables, opts, src, root, cur, matchedDeclStrings, hist>>

InitCodec == normst = NormIdle /\ conc = ConcIdle /\ CodecInit /\ selst = SelIdle /\ PipelineIdle

NormalizeColorStep ==
  /\ codec.step = "in"
  /\ codec' = [codec EXCEPT !.step = "norm", !.norm = normalizeColor(codec.in)]
  /\ UNCHANGED <<normst, conc, selst, pipeline>>

\* as in the walk callback, a lookup follows for a colour word or a function
GetNewColorValueStep ==
  /\ codec.step = "norm"
  /\ (codec.in.type = "word" /\ isColor(codec.in)) \/ codec.in.type = "function"
  /\ codec' = [codec EXCEPT !.step = "new",
                            !.new = getNewColorValue(codec.norm, codec.table)]
  /\ UNCHANGED <<normst, conc, selst, pipeline>>

NextCodec ==
  \/ NormalizeColorStep
  \/ GetNewColorValueStep

SpecCodec == InitCodec /\ [][NextCodec]_vars

(***************************************************************************)
(* Specification SpecSel: rewriteSelectors applied to one selector list    *)
(* and one source drawn from bounded sets                                  *)
(***************************************************************************)
MaxParts == 2

SelectorParts == {"a", "b", "body", "html", ":root", ".m", "a.m", "*.m"}

RECURSIVE SelectorsOfLen(_)
SelectorsOfLen(n) ==
  IF n = 0 THEN {<<>>}
  ELSE {Append(sel, p) : sel \in SelectorsOfLen(n - 1), p \in SelectorParts}

SelectorPool ==
  UNION {SelectorsOfLen(n) : n \in 1..MaxParts} \cup {<<"0%">>, <<"50%">>, <<"100%">>}

SelSources ==
  [prefix : {"", ".x", "html.x"},
   match : {<<>>, <<"body">>, <<".m">>, <<"body", ".m">>, <<"*.m">>}]

InitSel ==
  /\ normst = NormIdle
  /\ conc = ConcIdle
  /\ codec = CodecIdle
  /\ \E sel \in SelectorPool, s \in SelSources :
       selst = [step |-> "in", selectors |-> <<sel>>, src |-> s, out |-> <<>>]
  /\ PipelineIdle

RewriteSelectorsStep ==
  /\ selst.step = "in"
  /\ selst' = [selst EXCEPT !.step = "out",
                            !.out = rewriteSelectors(selst.selectors, selst.src)]
  /\ UNCHANGED <<normst, conc, codec, pipeline>>

NextSel == RewriteSelectorsStep

SpecSel == InitSel /\ [][NextSel]_vars

(***************************************************************************)
(* Specification SpecConc: remapCss over several sources.  The passes are  *)
(* created together (sources.map) and awaited with Promise.all; a pass's   *)
(* Root callback runs to completion once begun, the passes begin and       *)
(* their promises settle in any order.                                     *)
(*   conc.state[i]   "pending" | "running" | "ran" | "settled"             *)
(*   conc.css[i]     the result of pass i, once it ran                     *)
(*   conc.results    the array Promise.all fills                            *)
(*   conc.order      the indexes in the order their promises settled       *)
(***************************************************************************)
MaxSources == 2

ConcSourcePool ==
  {[tree |-> <<RedRule(1, "", <<<<"a">>>>)>>, src |-> [prefix |-> "", match |-> <<>>]],
   [tree |-> <<Rule(1, "", <<<<"b">>>>, <<Decl(11, D("box-shadow", <<W("1px"), W("red")>>, FALSE)),
                                         Decl(12, D("font-size", <<W("12px")>>, FALSE))>>)>>,
    src |-> [prefix |-> ".x", match |-> <<>>]],
   [tree |-> <<Rule(1, "", <<<<"a">>>>, <<Decl(11, D("color", <<W("inherit")>>, FALSE))>>),
               RedRule(2, "", <<<<"b">>>>)>>,
    src |-> [prefix |-> "", match |-> <<>>]]}

RECURSIVE ConcSources(_)
ConcSources(n) ==
  IF n = 0 THEN {<<>>}
  ELSE {Append(ss, s) : ss \in ConcSources(n - 1), s \in ConcSourcePool}

ConcMappings ==
  {<<Exact(R("color", <<W("red")>>, "none"), <<R("color", <<W("blue")>>, "none")>>),
     Category("$value", W("red"), W("green"))>>,
   <<Category("$value", MONOCHROME, INVERT)>>}

\* the state when Promise.all is called: the tables are compiled, every pass
\* is created and none has begun
InitConc ==
  /\ normst = NormIdle
  /\ codec = CodecIdle
  /\ selst = SelIdle
  /\ pc = "idle"
  /\ mappings \in ConcMappings
  /\ tables = prepareMappings(mappings)
  /\ opts \in {o \in OptsPool : ~o.validate /\ o.ignoreSelectors = <<>> /\ ~o.comments}
  /\ src = [prefix |-> "", match |-> <<>>]
  /\ root = <<>>
  /\ cur = [todo |-> <<>>, di |-> 1]
  /\ matchedDeclStrings = <<>>
  /\ hist = <<>>
  /\ \E n \in 1..MaxSources : \E ss \in ConcSources(n) :
       conc = [step |-> "run", sources |-> ss,
               state |-> [i \in 1..n |-> "pending"],
               css |-> [i \in 1..n |-> <<>>],
               results |-> [i \in 1..n |-> <<NONODE>>],
               order |-> <<>>, output |-> <<>>]

\* the Root callback of the plugin of source index begins
BeginPass ==
  /\ conc.step = "run" /\ pc = "idle"
  /\ \E index \in DOMAIN conc.sources :
       /\ conc.state[index] = "pending"
       /\ conc' = [conc EXCEPT !.state[index] = "running"]
       /\ root' = conc.sources[index].tree
       /\ src' = conc.sources[index].src
       /\ cur' = [todo |-> RuleIds(conc.sources[index].tree), di |-> 1]
  /\ pc' = "rules"
  /\ hist' = <<>>
  /\ UNCHANGED <<normst, codec, selst, mappings, tables, opts, matchedDeclStrings>>

\* the callback returns: the tree is the pass's result
EndPass ==
  /\ conc.step = "run" /\ pc = "done"
  /\ \E index \in DOMAIN conc.sources :
       /\ conc.state[index] = "running"
       /\ conc' = [conc EXCEPT !.state[index] = "ran", !.css[index] = root]
  /\ pc' = "idle"
  /\ root' = <<>>
  /\ UNCHANGED <<normst, codec, selst, mappings, tables, opts, src, cur, matchedDeclStrings, hist>>

\* a pass that threw rejects its promise, and Promise.all with it
RejectAll ==
  /\ conc.step = "run" /\ pc = "thrown"
  /\ conc' = [conc EXCEPT !.step = "rejected"]
  /\ UNCHANGED <<normst, codec, selst, pipeline>>

\* Promise.all in completion order: the value goes to the first free slot
promiseAllPush(results, index, value) ==
  LET free == {i \in DOMAIN results : results[i] = <<NONODE>>}
  IN [results EXCEPT ![CHOOSE i \in free : \A j \in free : i <= j] = value]

\* Promise.all: the value of the promise at position index of the iterable
\* becomes the element at index of the array it fulfils with
promiseAll(results, index, value) == [results EXCEPT ![index] = value]

\* the promise of a pass that ran is fulfilled with its result
Settle ==
  /\ conc.step = "run"
  /\ \E index \in DOMAIN conc.sources :
       /\ conc.state[index] = "ran"
       /\ conc' = [conc EXCEPT !.state[index] = "settled",
                               !.results = promiseAll(@, index, conc.css[index]),
                               !.order = Append(@, index)]
  /\ UNCHANGED <<normst, codec, selst, pipeline>>

\* for (const {css} of results) output += css
RECURSIVE Concatenated(_)
Concatenated(results) ==
  IF results = <<>> THEN <<>> ELSE Head(results) \o Concatenated(Tail(results))

\* Promise.all is fulfilled once every promise is; the output is assembled
Concatenate ==
  /\ conc.step = "run"
  /\ \A index \in DOMAIN conc.sources : conc.state[index] = "settled"
  /\ conc' = [conc EXCEPT !.step = "output", !.output = Concatenated(conc.results)]
  /\ UNCHANGED <<normst, codec, selst, pipeline>>

NextConc ==
  \/ BeginPass
  \/ ResolveExact
  \/ ResolveColor
  \/ ResolveUnmatched
  \/ ResolveThrows
  \/ RewriteRule
  \/ WalkAtRules
  \/ WalkCleanup
  \/ EndPass
  \/ RejectAll
  \/ Settle
  \/ Concatenate

SpecConc == InitConc /\ [][NextConc]_vars

(***************************************************************************)
(* Specification SpecNorm: one declaration text, normalized once as the    *)
(* plugin does for a declaration of the source, normalized again, and      *)
(* compiled to a key as addMapping does for the left side of a mapping     *)
(*   normst.text    [prop, value, imp]: the text 'prop: value', followed   *)
(*                  by ' !important' when imp is "word"                    *)
(***************************************************************************)
NormProps == {"color", "Color", "border", "font-size", "content"}

NormValues ==
  {<<W("red")>>, <<W("RED")>>, <<Hex(<<15, 15, 15>>)>>, <<Hex(<<16, 17, 18, 0>>)>>,
   <<W("transparent")>>, <<Fn("rgb", <<255, 0, 0>>)>>, <<Fn("rgb", <<1, 2, 3>>)>>,
   <<Fn("hsl", <<0, 100, 50>>)>>, <<W("0.5")>>, <<W("10.5px")>>, <<W("100.5px")>>,
   <<W("12px")>>, <<W("Hello")>>, <<FnK("url", <<W("a.png")>>)>>,
   <<FnK("url", <<W("A.png")>>)>>,
   <<W("1px"), W("SOLID"), W("red")>>, <<W("solid"), W("1px")>>,
   <<W("solid"), Fn("rgb", <<1, 2, 3>>)>>}

NormTexts == [prop : NormProps, value : NormValues, imp : {"none", "word"}]

\* the declaration postcss parses from the text
SourceDecl(text) == D(text.prop, text.value, text.imp = "word")

InitNorm ==
  /\ \E text \in NormTexts :
       normst = [step |-> "in", text |-> text, once |-> NULL, twice |-> NULL,
                 sourceKey |-> <<>>, mappingKey |-> <<>>]
  /\ conc = ConcIdle
  /\ codec = CodecIdle
  /\ selst = SelIdle
  /\ PipelineIdle

NormalizeDeclStep ==
  /\ normst.step = "in"
  /\ normst' = [normst EXCEPT !.step = "once",
                              !.once = normalizeDecl(SourceDecl(normst.text))]
  /\ UNCHANGED <<conc, codec, selst, pipeline>>

\* normalizeDecl applied to its own result
NormalizeDeclAgainStep ==
  /\ normst.step = "once"
  /\ normst' = [normst EXCEPT !.step = "twice",
                              !.twice = normalizeDecl(D(normst.once.prop, normst.once.value,
                                                        normst.once.important))]
  /\ UNCHANGED <<conc, codec, selst, pipeline>>

\* the lookup key of the declaration (line 609) and the key addMapping
\* stores the same text under (lines 412 and 416)
StringifyDeclStep ==
  /\ normst.step = "twice"
  /\ normst' = [normst EXCEPT !.step = "keys",
                              !.sourceKey = DeclString(SourceDecl(normst.text)),
                              !.mappingKey = EntryKey(Exact(normst.text, <<>>), FALSE)]
  /\ UNCHANGED <<conc, codec, selst, pipeline>>

NextNorm ==
  \/ NormalizeDeclStep
  \/ NormalizeDeclAgainStep
  \/ StringifyDeclStep

SpecNorm == InitNorm /\ [][NextNorm]_vars

(***************************************************************************)
(* Claims about the resolution of a declaration (specification Spec)       *)
(***************************************************************************)
\* the key of a resolved declaration is a key of the exact table
HasExactKey(h) == DeclString(h.decl) \in DOMAIN tables.decl

\* prop and value of the exact table's outputs for a resolved declaration
TableOutputs(h) ==
  LET outs == tables.decl[DeclString(h.decl)]
  IN [j \in DOMAIN outs |->
        [prop |-> outs[j].prop,
         value |-> IF outs[j].origValue # <<>> THEN outs[j].origValue ELSE outs[j].value]]

PropValue(decls) == [j \in DOMAIN decls |-> [prop |-> decls[j].prop, value |-> decls[j].value]]

\* C1: a declaration whose normalized key is in the exact table is resolved by
\* the exact table alone: no colour of its value is looked up, and what is
\* emitted is the table's outputs in order (nothing, in strict mode, when one
\* of the outputs is not valid), whatever the colour tables hold.
C1_ExactPrecedence ==
  \A i \in DOMAIN hist :
    HasExactKey(hist[i]) =>
      /\ hist[i].log = <<>>
      /\ hist[i].kind \in {"exact", "exactInvalid"}
      /\ IF opts.validate /\ \E j \in DOMAIN TableOutputs(hist[i]) :
                               ~isValidDeclaration(TableOutputs(hist[i])[j].prop,
                                                   TableOutputs(hist[i])[j].value)
           THEN hist[i].emitted = <<>>
           ELSE PropValue(hist[i].emitted) = TableOutputs(hist[i])

\* an exact hit on a declaration whose colour a colour table maps too
C1_Witness ==
  \E i \in DOMAIN hist :
    /\ HasExactKey(hist[i])
    /\ hist[i].emitted # <<>>
    /\ replaceColorsInValue(hist[i].decl.prop, hist[i].decl.value, tables).newValue # <<NULL>>

\* C2: every declaration emitted for an exact-matched declaration d from an
\* output o of its mapping is important exactly when d or o is.
C2_ImportantPropagation ==
  \A i \in DOMAIN hist :
    HasExactKey(hist[i]) =>
      \A j \in DOMAIN hist[i].emitted :
        hist[i].emitted[j].important =
          (hist[i].decl.important \/ tables.decl[DeclString(hist[i].decl)][j].important)

\* an important declaration matched through the twin of a plain key, whose
\* replacement is not important
C2_Witness ==
  \E i \in DOMAIN hist :
    /\ HasExactKey(hist[i])
    /\ hist[i].decl.important
    /\ tables.names[DeclString(hist[i].decl)].twin
    /\ hist[i].emitted # <<>>
    /\ ~tables.decl[DeclString(hist[i].decl)][1].important
    /\ hist[i].emitted[1].important

\* a resolved declaration that matched neither the exact table nor a colour table
Unmatched(h) ==
  /\ ~HasExactKey(h)
  /\ h.kind # "threw"
  /\ replaceColorsInValue(h.decl.prop, h.decl.value, tables).newValue = <<NULL>>

\* the declaration stands in its rule in the tree, as it was in the source
Present(h) ==
  /\ FindNode(root, h.rule) # NONODE
  /\ \E k \in DOMAIN FindNode(root, h.rule).nodes : FindNode(root, h.rule).nodes[k] = h.decl

Absent(h) ==
  \/ FindNode(root, h.rule) = NONODE
  \/ \A k \in DOMAIN FindNode(root, h.rule).nodes : FindNode(root, h.rule).nodes[k].id # h.id

\* every selector of the declaration's rule, prefixed, matches an ignore pattern
\* and a declaration of the rule was matched
RuleIgnored(h) ==
  /\ \E j \in DOMAIN hist : hist[j].rule = h.rule /\ hist[j].labels # <<>>
  /\ \A k \in DOMAIN h.sel :
       \E n \in DOMAIN opts.ignoreSelectors, m \in DOMAIN rewriteSelector(h.sel[k], src) :
         rewriteSelector(h.sel[k], src)[m] = opts.ignoreSelectors[n]

\* a later unmatched declaration of the same rule has the same property
LaterDuplicate(i) ==
  \E j \in DOMAIN hist :
    j > i /\ hist[j].rule = hist[i].rule /\ Unmatched(hist[j])
    /\ hist[j].decl.prop = hist[i].decl.prop

\* C3 as stated: an unmatched declaration is absent from the output with
\* keep=false and present, unchanged, with keep=true.
C3_DropOnNoMatch ==
  pc = "done" =>
    \A i \in DOMAIN hist :
      Unmatched(hist[i]) => IF opts.keep THEN Present(hist[i]) ELSE Absent(hist[i])

\* C3 amended: an unmatched declaration is absent from the output with
\* keep=false; with keep=true it is present, unchanged, unless its rule was
\* removed because every selector of the rule is ignored, or a later unmatched
\* declaration of the rule has the same property (the cleanup keeps the last).
C3_DropOnNoMatchAmended ==
  pc = "done" =>
    \A i \in DOMAIN hist :
      Unmatched(hist[i]) =>
        IF opts.keep
          THEN Present(hist[i]) <=> ~(RuleIgnored(hist[i]) \/ LaterDuplicate(i))
          ELSE Absent(hist[i])

\* with keep=true, an unmatched declaration that stays and one that does not
C3_Witness ==
  /\ pc = "done"
  /\ opts.keep
  /\ \E i \in DOMAIN hist : Unmatched(hist[i]) /\ Present(hist[i])
  /\ \E i \in DOMAIN hist : Unmatched(hist[i]) /\ ~Present(hist[i])

\* the category table of a property, <<>> for a property of no category
CategoryTable(prop) ==
  IF prop \in borderColorVars \/ prop = "border-image" THEN tables.border
  ELSE IF prop \in backgroundColorVars \/ prop = "background-image" THEN tables.background
  ELSE IF prop = "box-shadow" THEN tables.boxShadow
  ELSE <<>>

\* C4: the replacement of a colour node is the category table's, when the
\* declaration's property has a category and that table yields one, and the
\* generic table's otherwise; a colour the generic table maps is replaced in
\* a declaration of any property.
C4_CategoryPrecedence ==
  \A i \in DOMAIN hist :
    /\ \A k \in DOMAIN hist[i].log :
         hist[i].log[k].new =
           IF Truthy(getNewColorValue(hist[i].log[k].norm, CategoryTable(hist[i].decl.prop)))
             THEN getNewColorValue(hist[i].log[k].norm, CategoryTable(hist[i].decl.prop))
             ELSE getNewColorValue(hist[i].log[k].norm, tables.color)
    /\ \A k \in DOMAIN hist[i].decl.value :
         /\ ~HasExactKey(hist[i])
         /\ hist[i].kind # "threw"
         /\ hist[i].decl.value[k].type = "word"
         /\ isColor(hist[i].decl.value[k])
         /\ Truthy(Lookup(tables.color, normalizeColor(hist[i].decl.value[k])))
         => hist[i].log # <<>>

\* a colour that the category table and the generic table map differently
C4_Witness ==
  \E i \in DOMAIN hist : \E k \in DOMAIN hist[i].log :
    /\ CategoryTable(hist[i].decl.prop) # <<>>
    /\ Truthy(Lookup(CategoryTable(hist[i].decl.prop), hist[i].log[k].norm))
    /\ Truthy(Lookup(tables.color, hist[i].log[k].norm))
    /\ tables.color[hist[i].log[k].norm] # CategoryTable(hist[i].decl.prop)[hist[i].log[k].norm]
    /\ hist[i].log[k].new = CategoryTable(hist[i].decl.prop)[hist[i].log[k].norm]

\* C5: when a colour of a border or background shorthand is replaced and the
\* shorthand expands, only colour longhands are emitted, each carrying a
\* new colour.
C5_ShorthandExpansion ==
  \A i \in DOMAIN hist :
    /\ hist[i].kind = "color"
    /\ NeedsExpansion(hist[i].decl)
    /\ \A x \in ExpansionsOf(hist[i].decl,
                  replaceColorsInValue(hist[i].decl.prop, hist[i].decl.value, tables).newValue) :
         x.ok
    => \A j \in DOMAIN hist[i].emitted :
         /\ hist[i].emitted[j].prop \in {"border-color", "border-top-color", "background-color"}
         /\ Len(hist[i].emitted[j].value) = 1
         /\ \E k \in DOMAIN hist[i].log : hist[i].emitted[j].value[1] = hist[i].log[k].new

(***************************************************************************)
(* Claims about the colour codec (specification SpecCodec)                 *)
(***************************************************************************)
\* the texts of the opaque colour (r, g, b)
SameColorForms(r, g, b) ==
  {Hex(Hex6Of(r, g, b)), Hex(UpperDigits(Hex6Of(r, g, b))), Fn("rgb", <<r, g, b>>)}
  \cup (IF Doubled(r) /\ Doubled(g) /\ Doubled(b) THEN {Hex(<<r % 16, g % 16, b % 16>>)} ELSE {})
  \cup {W(n) : n \in {m \in DOMAIN cssColorNames : cssColorNames[m] = Hex6Of(r, g, b)}}

\* C6: normalizeColor gives every text of one opaque colour, a name, a hex
\* form of 3 or 6 digits or rgb(), the one canonical value #rrggbbff.
C6_ColorEquivalence ==
  codec.step \in {"norm", "new"} =>
    \A r \in Channels, g \in Channels, b \in Channels :
      codec.in \in SameColorForms(r, g, b) =>
        codec.norm = Hex(Hex6Of(r, g, b) \o <<15, 15>>)

\* C7: where the table has no entry for a canonical colour of equal channels
\* and maps $monochrome to $invert, the replacement has each colour channel
\* complemented to 255, in lowercase hex digits, and the alpha byte unchanged.
C7_MonochromeInvert ==
  /\ codec.step = "new"
  /\ IsHexWord(codec.norm) /\ Len(codec.norm.a) = 8
  /\ \A k \in 1..8 : codec.norm.a[k] \in 0..15
  /\ codec.norm \notin DOMAIN codec.table
  /\ MONOCHROME \in DOMAIN codec.table /\ codec.table[MONOCHROME] = INVERT
  /\ codec.norm.a[1] = codec.norm.a[3] /\ codec.norm.a[3] = codec.norm.a[5]
  /\ codec.norm.a[2] = codec.norm.a[4] /\ codec.norm.a[4] = codec.norm.a[6]
  => codec.new = Hex([k \in 1..8 |-> IF k <= 6 THEN 15 - codec.norm.a[k] ELSE codec.norm.a[k]])

\* #282828 under $monochrome -> $invert
C7_Witness ==
  /\ codec.step = "new"
  /\ codec.in = Hex(<<2, 8, 2, 8, 2, 8>>)
  /\ codec.table = (MONOCHROME :> INVERT)
  /\ codec.new = Hex(<<13, 7, 13, 7, 13, 7, 15, 15>>)

\* a colour text of alpha zero: the keyword, a hex form of 4 or 8 digits with
\* zero alpha digits, rgba() or hsla() with alpha 0
FullyTransparent(v) ==
  \/ toLowerCase(v) = W("transparent")
  \/ IsHexWord(v) /\ Len(v.a) = 4 /\ v.a[4] = 0
  \/ IsHexWord(v) /\ Len(v.a) = 8 /\ v.a[7] = 0 /\ v.a[8] = 0
  \/ v.type = "function" /\ v.s \in {"rgba", "hsla"} /\ Len(v.a) = 4 /\ v.a[4] = 0

\* C22: normalizeColor gives every fully transparent colour text the value
\* #00000000
C22_TransparentCanonical ==
  codec.step \in {"norm", "new"} /\ FullyTransparent(codec.in) => codec.norm = ZeroColor

\* the CSS-wide keywords among cssValueKeywords
WideKeywords == {W(k) : k \in cssValueKeywords \ {"transparent"}}

\* C25: a value node that is a CSS-wide keyword is a colour for isColor, and
\* the lookup in a table gives no replacement for it (a lookup that throws
\* gives none either)
C25_KeywordsPassThrough ==
  codec.step \in {"norm", "new"} /\ toLowerCase(codec.in) \in WideKeywords
  => /\ isColor(codec.in)
     /\ codec.step = "new" => codec.new \in {NULL, THROWN}

\* C26: a lookup that finds no own entry for the normalized text gives a
\* replacement only for a canonical colour #rrggbbaa of equal channels; for
\* any other text (a function that is no colour, a colour function that
\* cannot be converted) it gives none
C26_MonochromeOnlyGray ==
  (/\ codec.step = "new"
   /\ ~Truthy(Lookup(codec.table, codec.norm))
   /\ codec.new \notin {NULL, THROWN})
  => /\ IsHexWord(codec.norm) /\ Len(codec.norm.a) = 8
     /\ codec.norm.a[1] = codec.norm.a[3] /\ codec.norm.a[3] = codec.norm.a[5]
     /\ codec.norm.a[2] = codec.norm.a[4] /\ codec.norm.a[4] = codec.norm.a[6]

\* C28: where normalizeColor converts rgba() or hsla() to a hex colour, the
\* alpha digits are those of round(clamp(alpha, 0, 1) * 255), the alpha
\* digits CSS gives the same alpha in the hex form of eight digits
C28_AlphaConversion ==
  (/\ codec.step \in {"norm", "new"}
   /\ codec.in.type = "function" /\ codec.in.s \in {"rgba", "hsla"} /\ Len(codec.in.a) = 4
   /\ IsHexWord(codec.norm))
  => LET al == codec.in.a[4]
         clamped == IF al > 100 THEN 100 ELSE IF al < 0 THEN 0 ELSE al
     IN /\ Len(codec.norm.a) = 8
        /\ <<codec.norm.a[7], codec.norm.a[8]>> = Byte2Hex(CssAlphaByte(clamped))

(***************************************************************************)
(* Claims about the selector rewriter (specification SpecSel)              *)
(***************************************************************************)
\* C8: with a prefix, a selector whose leading compound is an entry of match
\* is left as it was, and a selector that is no keyframe step and whose
\* leading compound is no root compound and shares nothing with an entry of
\* match is emitted as the prefix, a space and the selector.
C8_PrefixExceptionList ==
  selst.step = "out" /\ selst.src.prefix # "" =>
    /\ (\E i \in DOMAIN selst.src.match : selst.selectors[1][1] = selst.src.match[i])
         => selst.out[1] = selst.selectors[1]
    /\ (/\ ~IsKeyframeStep(selst.selectors[1])
        /\ ~isRootSelector(selst.selectors[1][1])
        /\ \A i \in DOMAIN selst.src.match :
             ~selectorsIntersect(selst.selectors[1][1], selst.src.match[i]))
         => selst.out[1] = <<selst.src.prefix>> \o selst.selectors[1]

(***************************************************************************)
(* Claims about the rules of the rewritten tree (specification Spec)       *)
(***************************************************************************)
\* a declaration of the rule was replaced, on the exact or the colour path
RuleReplaced(id) ==
  \E i \in DOMAIN hist :
    hist[i].rule = id /\ hist[i].kind \in {"exact", "color"} /\ hist[i].emitted # <<>>

\* C9: a rule with a replaced declaration keeps, of its prefixed selectors,
\* those that match no ignore pattern, in their order; it is removed when
\* none is left.
C9_IgnorePatterns ==
  pc = "done" =>
    \A i \in DOMAIN hist :
      RuleReplaced(hist[i].rule) =>
        LET NotIgnored(sel) ==
              ~\E n \in DOMAIN opts.ignoreSelectors, m \in DOMAIN sel :
                  sel[m] = opts.ignoreSelectors[n]
            surviving == SelectSeq(rewriteSelectors(hist[i].sel, src), NotIgnored)
        IN IF surviving = <<>>
             THEN FindNode(root, hist[i].rule) = NONODE
             ELSE /\ FindNode(root, hist[i].rule) # NONODE
                  /\ FindNode(root, hist[i].rule).selector = surviving

\* C10 as stated: under every option setting a rule is in the rewritten tree
\* only if one of its declarations was replaced.
C10_RuleSurvival ==
  pc = "done" => \A k \in DOMAIN RuleIds(root) : RuleReplaced(RuleIds(root)[k])

\* C10 amended: a rule is in the rewritten tree only if one of its
\* declarations was replaced or, with keep=true, it retains an unmatched
\* declaration.
C10_RuleSurvivalAmended ==
  pc = "done" =>
    \A k \in DOMAIN RuleIds(root) :
      \/ RuleReplaced(RuleIds(root)[k])
      \/ /\ opts.keep
         /\ \E i \in DOMAIN hist :
              hist[i].rule = RuleIds(root)[k] /\ Unmatched(hist[i]) /\ Present(hist[i])

\* a rule that survives next to a rule of the source that does not
C10_Witness ==
  /\ pc = "done"
  /\ \E k \in DOMAIN RuleIds(root) : RuleReplaced(RuleIds(root)[k])
  /\ \E i \in DOMAIN hist :
       ~RuleReplaced(hist[i].rule) /\ FindNode(root, hist[i].rule) = NONODE

(***************************************************************************)
(* Claims about the compiled exact table (specification Spec)              *)
(***************************************************************************)
\* the entries of the raw spec written with !important whose key is k
ExplicitEntries(k) ==
  {j \in DOMAIN mappings :
     /\ mappings[j].kind = "exact" /\ mappings[j].to # <<>>
     /\ mappings[j].from.imp # "none"
     /\ EntryKey(mappings[j], FALSE) = k}

\* C13: once the raw spec is compiled, for every exact entry written without
\* !important the table maps the !important variant of its key to the outputs
\* of the key itself, unless the raw spec has an entry written for the
\* !important variant: then the table holds that entry's outputs, whichever
\* of the two entries comes first.
C13_ImportantTwin ==
  pc \in {"rules", "walk", "done"} =>
    \A i \in DOMAIN mappings :
      (mappings[i].kind = "exact" /\ mappings[i].to # <<>> /\ mappings[i].from.imp = "none") =>
        /\ EntryKey(mappings[i], TRUE) \in DOMAIN tables.decl
        /\ IF ExplicitEntries(EntryKey(mappings[i], TRUE)) = {}
             THEN tables.decl[EntryKey(mappings[i], TRUE)]
                    = tables.decl[EntryKey(mappings[i], FALSE)]
             ELSE \E j \in ExplicitEntries(EntryKey(mappings[i], TRUE)) :
                    tables.decl[EntryKey(mappings[i], TRUE)] = parseDecl(mappings[j].to)

(***************************************************************************)
(* Claims about strict validation (specification Spec)                     *)
(***************************************************************************)
\* some output of the exact table for the declaration is rejected
ExactCandidateRejected(h) ==
  /\ HasExactKey(h)
  /\ \E j \in DOMAIN TableOutputs(h) :
       ~isValidDeclaration(TableOutputs(h)[j].prop, TableOutputs(h)[j].value)

\* the declaration with its colours replaced is rejected
ColorCandidateRejected(h) ==
  /\ ~HasExactKey(h)
  /\ h.kind # "threw"
  /\ replaceColorsInValue(h.decl.prop, h.decl.value, tables).newValue # <<NULL>>
  /\ ~isValidDeclaration(getProperty(h.decl),
                         replaceColorsInValue(h.decl.prop, h.decl.value, tables).newValue)

\* C12: with validate on, a matched declaration whose candidate output the
\* validator rejects is removed and no declaration is emitted for it, on the
\* exact path and on the colour path alike; the pass goes on (nothing is
\* thrown); with validate off no declaration is removed for validity.
C12_ValidationGate ==
  \A i \in DOMAIN hist :
    /\ hist[i].kind = "exactInvalid" <=> (opts.validate /\ ExactCandidateRejected(hist[i]))
    /\ hist[i].kind = "colorInvalid" <=> (opts.validate /\ ColorCandidateRejected(hist[i]))
    /\ hist[i].kind \in {"exactInvalid", "colorInvalid"} =>
         /\ hist[i].emitted = <<>>
         /\ Absent(hist[i])
         /\ pc # "thrown"

\* an exact mapping whose second output is rejected after its first passed,
\* and the pass has come to its end
C12_Witness ==
  /\ pc = "done"
  /\ \E i \in DOMAIN hist :
       /\ hist[i].kind = "exactInvalid"
       /\ isValidDeclaration(TableOutputs(hist[i])[1].prop, TableOutputs(hist[i])[1].value)

(***************************************************************************)
(* Claims about exceptions (specification Spec)                            *)
(***************************************************************************)
\* C14: resolving a declaration never throws, whatever the source and the
\* tables ($monochrome -> $invert included): a value that is no concrete
\* colour is a non-match and the declaration ends in an ordinary outcome.
C14_NoException ==
  /\ pc # "thrown"
  /\ \A i \in DOMAIN hist : hist[i].kind # "threw"

(***************************************************************************)
(* Claims about provenance comments (specification Spec)                   *)
(***************************************************************************)
\* the provenance comments of a tree
RECURSIVE ProvenanceComments(_)
ProvenanceComments(nodes) ==
  IF nodes = <<>> THEN {}
  ELSE (IF Head(nodes).type = "comment" /\ Head(nodes).provenance THEN {Head(nodes)}
        ELSE IF Head(nodes).type = "atrule" THEN ProvenanceComments(Head(nodes).nodes)
        ELSE {})
       \cup ProvenanceComments(Tail(nodes))

\* C16: the label list of a provenance comment, for one rule or merged for
\* consecutive rules, holds each quoted declaration or colour text at most
\* once, whether the labels come from the exact path or the colour path.
C16_ProvenanceLabels ==
  \A c \in ProvenanceComments(root) :
    \A i, j \in DOMAIN QuotedTexts(c.labels) :
      i # j => QuotedTexts(c.labels)[i] # QuotedTexts(c.labels)[j]

(***************************************************************************)
(* Claims about the declarations an exact mapping emits (specification     *)
(* Spec)                                                                   *)
(***************************************************************************)
\* the exact entries of the raw spec compiled to the key k or to its twin
EntriesFor(k) ==
  {j \in DOMAIN mappings :
     /\ mappings[j].kind = "exact" /\ mappings[j].to # <<>>
     /\ k \in {EntryKey(mappings[j], FALSE), EntryKey(mappings[j], TRUE)}}

\* property and value of the outputs of a replacement, as they are written
Written(to) ==
  [j \in DOMAIN to |->
     [prop |-> to[j].prop,
      value |-> to[j].value \o (IF to[j].imp = "word" THEN <<W("!important")>> ELSE <<>>)]]

\* the declarations of a rule that stand for the source declaration id
StandingFor(nodes, id) == SelectSeq(nodes, LAMBDA n : n.id = id)

\* C17: an exact-matched declaration is replaced, where it stood in its rule,
\* by the outputs written in the replacement of its mapping, one declaration
\* per output and in their order, and the declaration itself does not remain
\* (a declaration removed by strict validation aside).
C17_ExactFanOut ==
  \A i \in DOMAIN hist :
    (HasExactKey(hist[i]) /\ ~(opts.validate /\ ExactCandidateRejected(hist[i]))) =>
      /\ \E j \in EntriesFor(DeclString(hist[i].decl)) :
           PropValue(hist[i].emitted) = Written(mappings[j].to)
      /\ (pc = "done" /\ FindNode(root, hist[i].rule) # NONODE) =>
           /\ StandingFor(FindNode(root, hist[i].rule).nodes, hist[i].id) = hist[i].emitted
           /\ \A a, b \in DOMAIN FindNode(root, hist[i].rule).nodes :
                a < b => FindNode(root, hist[i].rule).nodes[a].id
                           <= FindNode(root, hist[i].rule).nodes[b].id
           /\ \A a \in DOMAIN hist[i].emitted : hist[i].emitted[a].replaced

(***************************************************************************)
(* Claims about the selectors of keyframes (specification Spec)            *)
(***************************************************************************)
\* a number followed by '%'
KeyframePercentages == {<<"0%">>, <<"12.5%">>, <<"50%">>, <<"100%">>}

\* C18: for a source with a prefix, a selector that is a keyframe percentage
\* and every selector of a rule nested in a keyframes at-rule is emitted as
\* it is written, without the prefix.
C18_KeyframeStepsUnprefixed ==
  (pc = "done" /\ src.prefix # "") =>
    \A i \in DOMAIN hist :
      FindNode(root, hist[i].rule) # NONODE =>
        \A m \in DOMAIN FindNode(root, hist[i].rule).selector :
          /\ \A k \in DOMAIN hist[i].sel :
               hist[i].sel[k] \in KeyframePercentages =>
                 FindNode(root, hist[i].rule).selector[m] # <<src.prefix>> \o hist[i].sel[k]
          /\ FindNode(root, hist[i].rule).parent \in {"keyframes", "-webkit-keyframes"} =>
               \E k \in DOMAIN hist[i].sel :
                 FindNode(root, hist[i].rule).selector[m] = hist[i].sel[k]

\* the entries of a raw mapping whose replacement is not the empty string
RECURSIVE WithoutEmpty(_)
WithoutEmpty(entries) ==
  IF entries = <<>> THEN <<>>
  ELSE (IF Head(entries).to = <<>> \/ Head(entries).to = <<EMPTY>>
          THEN <<>> ELSE <<Head(entries)>>)
       \o WithoutEmpty(Tail(entries))

\* C23: the tables compiled from a raw mapping are the tables compiled from
\* it with every entry of empty replacement left out
C23_EmptyReplacement ==
  pc # "start" => tables = prepareMappings(WithoutEmpty(mappings))

\* C30: a declaration the colour path marks as replaced does not stand in
\* the rule as it was written, with its own property and its own value
C30_MarkedImpliesRewritten ==
  \A i \in DOMAIN hist :
    hist[i].kind = "color" =>
      \A j \in DOMAIN hist[i].emitted :
        hist[i].emitted[j].replaced =>
          ~(/\ hist[i].emitted[j].prop = hist[i].decl.prop
            /\ hist[i].emitted[j].value = hist[i].decl.value)

(***************************************************************************)
(* Claims about the cleanup walk (specification Spec)                      *)
(***************************************************************************)
\* the rules and at-rules of a tree, at every depth
RECURSIVE Containers(_)
Containers(nodes) ==
  IF nodes = <<>> THEN {}
  ELSE (IF Head(nodes).type = "rule" THEN {Head(nodes)}
        ELSE IF Head(nodes).type = "atrule"
          THEN {Head(nodes)} \cup Containers(Head(nodes).nodes)
        ELSE {})
       \cup Containers(Tail(nodes))

\* the declarations of a tree, at every depth
RECURSIVE SubtreeDecls(_)
SubtreeDecls(nodes) ==
  IF nodes = <<>> THEN {}
  ELSE (IF Head(nodes).type = "decl" THEN {Head(nodes)}
        ELSE IF Head(nodes).type = "comment" THEN {}
        ELSE SubtreeDecls(Head(nodes).nodes))
       \cup SubtreeDecls(Tail(nodes))

RECURSIVE RuleDecls(_)
RuleDecls(nodes) ==
  IF nodes = <<>> THEN {}
  ELSE (IF Head(nodes).type = "rule" THEN {Head(nodes).nodes[k] : k \in DOMAIN Head(nodes).nodes}
        ELSE IF Head(nodes).type = "atrule" THEN RuleDecls(Head(nodes).nodes)
        ELSE {})
       \cup RuleDecls(Tail(nodes))

\* C19: every declaration of a rule of the source is resolved exactly once
\* and ends replaced by the exact table, replaced on the colour path, kept
\* unmatched or dropped (a removal by strict validation counted as dropped);
\* a declaration emitted as a replacement, which carries the id of the
\* declaration it replaces, is never resolved itself.
C19_TerminalOutcome ==
  /\ \A i, j \in DOMAIN hist : hist[i].id = hist[j].id => i = j
  /\ \A i \in DOMAIN hist :
       hist[i].kind \in {"exact", "color", "kept", "dropped", "exactInvalid", "colorInvalid"}
  /\ pc \in {"walk", "done"} =>
       \A d \in RuleDecls(root) : \E i \in DOMAIN hist : hist[i].id = d.id
  /\ pc # "thrown"

\* C20: a declaration written with a hack marker is looked up under a key
\* that differs from the key of the same declaration without the marker, and
\* when the exact table replaces a declaration, the key it was found under
\* names the property as it was written, marker included
C20_HackSeparation ==
  \A i \in DOMAIN hist :
    LET decl == hist[i].decl
    IN /\ decl.before \in {"*", "_"} =>
            DeclString(decl) # DeclString([decl EXCEPT !.before = ""])
       /\ hist[i].kind \in {"exact", "exactInvalid"} =>
            stringifyDecl([prop |-> decl.prop, value |-> decl.value,
                           important |-> decl.important, before |-> decl.before])
              \in DOMAIN tables.decl

(***************************************************************************)
(* Claims about normalizeDecl (specification SpecNorm)                     *)
(***************************************************************************)
\* C15: normalizeDecl applied to its own result gives the same property,
\* value and important flag; and so the key a text is stored under as the
\* left side of a mapping (normalized by parseDecl and again by
\* stringifyDecl) is the lookup key of the same text as a declaration of the
\* source (normalized once).
C15_NormalizeIdempotent ==
  /\ normst.step \in {"twice", "keys"} =>
       /\ normst.twice.prop = normst.once.prop
       /\ normst.twice.value = normst.once.value
       /\ normst.twice.important = normst.once.important
  /\ normst.step = "keys" => normst.mappingKey = normst.sourceKey

\* C21: when the property is content or the value starts with url(, the
\* letter case of the value stays in the normalized value: a text whose value
\* has an upper-case letter and the same text in lower case are normalized
\* to different values
C21_CaseFoldingExceptions ==
  LET text == normst.text
      lower == [text EXCEPT !.value = [i \in DOMAIN @ |-> toLowerCase(@[i])]]
  IN (/\ normst.step \in {"once", "twice", "keys"}
      /\ LowerProp(text.prop) = "content" \/ StartsWithUrl(text.value)
      /\ lower # text)
     => normst.once.value # normalizeDecl(SourceDecl(lower)).value

\* words of the vocabulary that write pairwise different numbers
DistinctNumbers == {"0.5", "1.5px", "10.5px", "100.5px", "1px", "12px"}

\* C27: two declarations of one property whose values are different numbers
\* are normalized to different values
C27_ZeroStripPreservesNumber ==
  LET text == normst.text
  IN normst.step \in {"once", "twice", "keys"} =>
       \A n \in DistinctNumbers : \A m \in DistinctNumbers \ {n} :
         text.value = <<W(n)>> =>
           normst.once.value # normalizeDecl(SourceDecl([text EXCEPT !.value = <<W(m)>>])).value

\* C29: a mapping key written 'prop: value !important' is compiled to the
\* lookup key of the source declaration of that property and value with the
\* important flag set
C29_ImportantMappingKey ==
  normst.step = "keys" /\ normst.text.imp = "word" => normst.mappingKey = normst.sourceKey

(***************************************************************************)
(* Claims about remapCss over several sources (specification SpecConc)     *)
(***************************************************************************)
\* C11: whatever the order in which the passes run and their promises
\* settle, the text assembled for the optimizer is the results of the passes
\* concatenated in the order of the sources array, and the result of a pass
\* depends on its source alone.
C11_SourceOrder ==
  conc.step = "output" =>
    /\ conc.output = Concatenated(conc.css)
    /\ \A i, j \in DOMAIN conc.sources :
         conc.sources[i] = conc.sources[j] => conc.css[i] = conc.css[j]

\* the second source's promise settled first, and the two results differ
C11_Witness ==
  /\ conc.step = "output"
  /\ conc.order = <<2, 1>>
  /\ conc.css[1] # conc.css[2]
  /\ conc.css[1] # <<>> /\ conc.css[2] # <<>>

====
